---- MODULE Spec2Model ----
(***************************************************************************)
(* Museum catalog pipeline: identity resolution (spreadsheet lookup table, *)
(* image grouping by file name) and parsing of the generated text, as the  *)
(* scripts under src/ implement them.                                      *)
(*                                                                         *)
(* Text is a sequence of one-character strings, so that strip, split,      *)
(* replace, upper and startswith are computed character by character.      *)
(***************************************************************************)
EXTENDS Integers, Sequences, FiniteSets, TLC

VARIABLES
    raw_id,         \* canonicalization: the inventory-number cell
    key_once,       \* canonicalization: its lookup key
    key_twice,      \* canonicalization: the lookup key of the lookup key
    canon_pc,       \* canonicalization: "in", "once", "twice"
    sheet,          \* the spreadsheet: [cols, rows], cells as read from the file
    data_map,       \* the lookup table returned by load_and_prepare_data
    load_pc,        \* "start", "loaded" (table built), "failed" (exception caught, {} returned)
    p_kind,         \* parser: which script's _parse_response runs
    p_lang,         \* parser: the language whose tags are searched for
    p_text,         \* parser: the text to parse
    p_lines,        \* parser: the lines of the text
    p_i,            \* parser: index of the next line
    p_st,           \* parser: [headline, description, in_description]
    p_result,       \* parser: the returned (headline, description)
    p_pc,           \* parser: "start", "lines", "done"
    script,         \* pipeline: which script runs
    api_key,        \* pipeline: GOOGLE_API_KEY is set in the environment
    listing,        \* pipeline: os.listdir of the image folder
    rate_limit_batch, \* pipeline: config.rate_limit_batch
    object_groups,  \* pipeline: the dict object_id -> image_files, in insertion order
    idx,            \* pipeline: loop rounds done
    processed_count, \* pipeline: processed_count of Experiment3.1
    output,         \* pipeline: the data rows written to the output file
    calls,          \* pipeline: the generation calls made
    sleeps,         \* pipeline: the rounds after which the loop slept
    pipe_pc,        \* pipeline: "main", "ready", "loop", "closed", "returned"
    xl_groups,      \* catalog script: the groups of the spreadsheet
    xl_languages,   \* catalog script: the languages asked for
    xl_i,           \* catalog script: groups done
    results_rows,   \* catalog script: the rows of the output sheet
    xl_pc,          \* catalog script: "loop", "saved"
    c_text,         \* _clean_caption: the text handed in
    c_caption,      \* _clean_caption: [caption, caption_lower]
    c_k,            \* _clean_caption: phrases of UNWANTED_PHRASES tried
    c_result,       \* _clean_caption: the returned text
    c_pc,           \* _clean_caption: "start", "phrases", "done"
    x2_rows,        \* filename matching: the rows of the data file
    x2_images,      \* filename matching: the image files of the directory
    excel_data_by_filename, \* filename matching: lower-cased file name -> metadata
    matched_data,   \* filename matching: the (metadata, image_path) pairs
    matched_count,  \* filename matching: images with a row
    unmatched_count, \* filename matching: images without a row
    x2_i,           \* filename matching: images (then items) done
    x2_output,      \* filename matching: the data rows written
    x2_pc,          \* filename matching: "load", "match", "matched", "loop", "closed", "returned"
    all_dataframes, \* merge script: the sheets loaded
    cleaned_df,     \* merge script: the deduplicated rows
    merge_pc,       \* merge script: "load", "loaded", "saved", "stopped"
    sel_files,      \* image selection: the paths of one group
    sel_out,        \* image selection: files_to_process
    sel_pc,         \* image selection: "start", "done"
    i1_files,       \* caption loop: image_files, sorted
    i1_idx,         \* caption loop: images done
    i1_processed,   \* caption loop: processed
    i1_successful,  \* caption loop: successful
    i1_rows,        \* caption loop: the data rows written
    i1_steps,       \* caption loop: per image, what happened
    i1_pc,          \* caption loop: "loop", "returned"
    pr_script,      \* prompt: "exp2", "exp31"
    pr_language,    \* prompt: the configured language
    pr_prompt_tags, \* prompt: the labels the prompt names
    pr_parser_tags, \* prompt: the labels handed to _parse_response
    pr_text,        \* prompt: the text of the response
    pr_result,      \* prompt: what the generator returns
    pr_pc,          \* prompt: "start", "prompted", "answered", "done"
    start_button,   \* GUI: state of the start button, "normal" or "disabled"
    log_queue,      \* GUI: the messages put and not yet taken
    log_textbox,    \* GUI: the messages in the log widget
    threads,        \* GUI: the worker threads started, in order
    put_log,        \* GUI: every message put on the queue, in order
    shown_log,      \* GUI: every message of the queue handed to log(), in order
    clicks,         \* GUI: clicks on the start button so far
    gui_pc,         \* GUI: "idle", or "draining" inside update_log_widget
    rt_images,      \* generate_catalog_text: the image files handed in
    rt_encoded,     \* how many of them are encoded
    rt_attempt,     \* the loop variable attempt
    rt_requests,    \* the HTTP requests made, each with its outcome
    rt_sleeps,      \* the waits slept
    rt_result,      \* the value returned
    rt_pc,          \* where the call is
    cp_csv,         \* copy_images_by_id: the cells of column T13
    cp_listings,    \* os.listdir of the two source folders
    object_identifiers,\* the identifiers extracted
    cp_folder,      \* the source folder being searched
    cp_idx,         \* how many of its entries are done
    copied_files,   \* the file names copied
    found_images_counter,\* the number of copies made
    cp_copies,      \* the calls of shutil.copy2
    cp_pc           \* where the script is

canon_vars == <<raw_id, key_once, key_twice, canon_pc>>
load_vars == <<sheet, data_map, load_pc>>
parse_vars == <<p_kind, p_lang, p_text, p_lines, p_i, p_st, p_result, p_pc>>
pipe_vars == <<script, api_key, listing, rate_limit_batch, object_groups, idx, processed_count,
               output, calls, sleeps, pipe_pc>>
excel_vars == <<xl_groups, xl_languages, xl_i, results_rows, xl_pc>>
clean_vars == <<c_text, c_caption, c_k, c_result, c_pc>>
match_vars == <<x2_rows, x2_images, excel_data_by_filename, matched_data, matched_count,
                unmatched_count, x2_i, x2_output, x2_pc>>
merge_vars == <<all_dataframes, cleaned_df, merge_pc>>
sel_vars == <<sel_files, sel_out, sel_pc>>
image_vars == <<i1_files, i1_idx, i1_processed, i1_successful, i1_rows, i1_steps, i1_pc>>
prompt_vars == <<pr_script, pr_language, pr_prompt_tags, pr_parser_tags, pr_text, pr_result, pr_pc>>
gui_vars == <<start_button, log_queue, log_textbox, threads, put_log, shown_log, clicks, gui_pc>>
retry_vars == <<rt_images, rt_encoded, rt_attempt, rt_requests, rt_sleeps, rt_result, rt_pc>>
copy_vars == <<cp_csv, cp_listings, object_identifiers, cp_folder, cp_idx, copied_files, found_images_counter, cp_copies, cp_pc>>
late_vars == <<sel_vars, image_vars, prompt_vars, gui_vars, retry_vars, copy_vars>>
vars == <<canon_vars, load_vars, parse_vars, pipe_vars, excel_vars,
          clean_vars, match_vars, merge_vars, late_vars>>
\* the variables an action of one part leaves alone
sel_rest == <<canon_vars, load_vars, parse_vars, pipe_vars, excel_vars, clean_vars, match_vars,
    merge_vars, image_vars, prompt_vars, gui_vars, retry_vars, copy_vars>>
image_rest == <<canon_vars, load_vars, parse_vars, pipe_vars, excel_vars, clean_vars,
    match_vars, merge_vars, sel_vars, prompt_vars, gui_vars, retry_vars, copy_vars>>
prompt_rest == <<canon_vars, load_vars, parse_vars, pipe_vars, excel_vars, clean_vars,
    match_vars, merge_vars, sel_vars, image_vars, gui_vars, retry_vars, copy_vars>>
gui_rest == <<canon_vars, load_vars, parse_vars, pipe_vars, excel_vars, clean_vars, match_vars,
    merge_vars, sel_vars, image_vars, prompt_vars, retry_vars, copy_vars>>
retry_rest == <<canon_vars, load_vars, parse_vars, pipe_vars, excel_vars, clean_vars,
    match_vars, merge_vars, sel_vars, image_vars, prompt_vars, gui_vars, copy_vars>>
copy_rest == <<canon_vars, load_vars, parse_vars, pipe_vars, excel_vars, clean_vars,
    match_vars, merge_vars, sel_vars, image_vars, prompt_vars, gui_vars, retry_vars>>

(***************************************************************************)
(* Bounds of the model                                                     *)
(***************************************************************************)
MaxIdLen == 4       \* longest inventory-number cell handed to the canonicalization
MaxRows == 2        \* most spreadsheet rows of a lookup-table run
MaxLines == 3       \* most lines of a generated text
MaxFiles == 3       \* most files in the image folder
MaxObjects == 2     \* most groups of the catalog script's spreadsheet
MaxWords == 3       \* most pieces of a text handed to _clean_caption

(***************************************************************************)
(* Python str operations used by the scripts                               *)
(***************************************************************************)
Min(a, b) == IF a < b THEN a ELSE b

\* the characters str.strip() removes, among those the model's texts use
Whitespace == {" ", "\t", "\n"}

\* s[n:]
Drop(s, n) == SubSeq(s, n + 1, Len(s))

\* s[:n]
Take(s, n) == SubSeq(s, 1, Min(n, Len(s)))

RECURSIVE lstrip(_, _)
\* str.lstrip(chars)
lstrip(s, cs) ==
    IF s # <<>> /\ Head(s) \in cs THEN lstrip(Tail(s), cs) ELSE s

RECURSIVE rstrip(_, _)
\* str.rstrip(chars)
rstrip(s, cs) ==
    IF s # <<>> /\ s[Len(s)] \in cs THEN rstrip(SubSeq(s, 1, Len(s) - 1), cs) ELSE s

\* str.strip()
strip(s) == rstrip(lstrip(s, Whitespace), Whitespace)

\* str.replace(a, b) for single characters a and b
replace(s, a, b) == [i \in 1..Len(s) |-> IF s[i] = a THEN b ELSE s[i]]

\* s.startswith(p)
startswith(s, p) == Len(s) >= Len(p) /\ SubSeq(s, 1, Len(p)) = p

RECURSIVE split(_, _)
\* str.split(sep) for a single character sep: every separator cuts, empty pieces are kept
split(s, sep) ==
    IF \A i \in 1..Len(s) : s[i] # sep
    THEN <<s>>
    ELSE LET i == CHOOSE j \in 1..Len(s) : s[j] = sep /\ \A k \in 1..(j - 1) : s[k] # sep
         IN  <<SubSeq(s, 1, i - 1)>> \o split(Drop(s, i), sep)

RECURSIVE join(_, _)
\* sep.join(parts)
join(parts, sep) ==
    IF parts = <<>> THEN <<>>
    ELSE IF Len(parts) = 1 THEN parts[1]
    ELSE parts[1] \o <<sep>> \o join(Tail(parts), sep)

\* " ".join(parts)
join_strings(parts) == join(parts, " ")

(***************************************************************************)
(* Lookup table: load_and_prepare_data                                     *)
(***************************************************************************)
NA == <<"N", "/", "A">>

\* read_csv(dtype=str).fillna("N/A"): an empty cell is read as NaN and filled
fillna(cell) == IF cell = <<>> THEN NA ELSE cell

\* df['cleaned_t1'] = df['t1'].astype(str).str.strip()
cleaned_t1(t1) == strip(t1)

\* df['lookup_key'] = cleaned_t1.str.replace('/', '-').str.split(' ').str[0]
lookup_key(t1) == split(replace(cleaned_t1(t1), "/", "-"), " ")[1]


\* all texts of at most n characters over the alphabet cs
RECURSIVE Texts(_, _)
Texts(cs, n) ==
    IF n = 0 THEN {<<>>}
    ELSE LET shorter == Texts(cs, n - 1)
         IN  shorter \cup {Append(t, c) : t \in {u \in shorter : Len(u) = n - 1}, c \in cs}

\* characters of an inventory-number cell: a digit, the two join characters,
\* the space and a tab (a cell of a CSV file may hold any whitespace)
IdAlphabet == {"1", "/", "-", " ", "\t"}

CanonIdle == raw_id = <<>> /\ key_once = <<>> /\ key_twice = <<>> /\ canon_pc = "idle"

CanonInit ==
    /\ raw_id \in Texts(IdAlphabet, MaxIdLen)
    /\ key_once = <<>> /\ key_twice = <<>> /\ canon_pc = "in"

\* the key of a cell, lines 74-81
Canonicalize ==
    /\ canon_pc = "in"
    /\ key_once' = lookup_key(raw_id)
    /\ canon_pc' = "once"
    /\ UNCHANGED <<raw_id, key_twice, load_vars, parse_vars, pipe_vars, excel_vars, clean_vars, match_vars, merge_vars, late_vars>>

\* the same lines applied to a key
Recanonicalize ==
    /\ canon_pc = "once"
    /\ key_twice' = lookup_key(key_once)
    /\ canon_pc' = "twice"
    /\ UNCHANGED <<raw_id, key_once, load_vars, parse_vars, pipe_vars, excel_vars, clean_vars, match_vars, merge_vars, late_vars>>

(***************************************************************************)
(* The spreadsheet and the table built from it                             *)
(***************************************************************************)
EmptyMap == <<>>

\* the row with the lookup_key column added (lines 74-81), cells filled (line 70)
with_lookup_key(row) ==
    [t1 |-> fillna(row.t1), T3 |-> fillna(row.T3), T5 |-> fillna(row.T5),
     T14 |-> fillna(row.T14), lookup_key |-> lookup_key(fillna(row.t1))]

\* a plausible slip: keep='last'
drop_duplicates_last(df) ==
    LET keep == {i \in 1..Len(df) :
                    \A j \in (i + 1)..Len(df) : df[j].lookup_key # df[i].lookup_key}
        F[i \in 0..Len(df)] ==
            IF i = 0 THEN <<>>
            ELSE IF i \in keep THEN Append(F[i - 1], df[i]) ELSE F[i - 1]
    IN  F[Len(df)]

\* df.drop_duplicates(subset='lookup_key', keep='first')
drop_duplicates(df) ==
    LET keep == {i \in 1..Len(df) :
                    \A j \in 1..(i - 1) : df[j].lookup_key # df[i].lookup_key}
        F[i \in 0..Len(df)] ==
            IF i = 0 THEN <<>>
            ELSE IF i \in keep THEN Append(F[i - 1], df[i]) ELSE F[i - 1]
    IN  F[Len(df)]

\* row.get(col, 'N/A'): the cell, or 'N/A' when the sheet has no such column
row_get(cols, row, col) == IF col \in cols THEN row[col] ELSE NA

\* the loop of lines 87-94: data_map[key] = {...} for each row in order
populate(cols, df) ==
    LET F[i \in 0..Len(df)] ==
            IF i = 0 THEN EmptyMap
            ELSE LET row == df[i]
                     entry == [material |-> row_get(cols, row, "T3"),
                               dimensions |-> row_get(cols, row, "T5"),
                               date |-> row_get(cols, row, "T14")]
                     old == F[i - 1]
                 IN  [k \in DOMAIN old \cup {row.lookup_key} |->
                        IF k = row.lookup_key THEN entry ELSE old[k]]
    IN  F[Len(df)]

\* load_and_prepare_data: {} when df['t1'] raises (no such column), else the table
load_and_prepare_data(sh) ==
    IF "t1" \notin sh.cols THEN EmptyMap
    ELSE populate(sh.cols, drop_duplicates([i \in 1..Len(sh.rows) |-> with_lookup_key(sh.rows[i])]))

\* inventory-number cells of the spreadsheets: three spellings of one object,
\* another object, a cell of blanks and an empty cell
T1Cells ==
    {<<"1", "/", "2">>, <<"1", "-", "2">>, <<"1", "/", "2", " ", "0">>,
     <<"3">>, <<" ">>, <<>>}

\* material (T3), dimensions (T5) and date (T14) cells of a row; <<>> is an empty cell
Metas ==
    {[T3 |-> <<"Brass">>, T5 |-> <<"10cm">>, T14 |-> <<"1934">>],
     [T3 |-> <<"Iron">>, T5 |-> <<"20cm">>, T14 |-> <<"1950">>],
     [T3 |-> <<"Wood">>, T5 |-> <<>>, T14 |-> <<>>]}

Rows == {[t1 |-> t, T3 |-> m.T3, T5 |-> m.T5, T14 |-> m.T14] : t \in T1Cells, m \in Metas}

\* the columns a sheet may have: all of them, no dimensions and date, no ID column
ColumnSets == {{"t1", "T3", "T5", "T14"}, {"t1", "T3"}, {"T3", "T5", "T14"}}

RECURSIVE SeqsUpTo(_, _)
\* all sequences of at most n elements of S
SeqsUpTo(S, n) ==
    IF n = 0 THEN {<<>>}
    ELSE LET shorter == SeqsUpTo(S, n - 1)
         IN  shorter \cup {Append(q, x) : q \in {u \in shorter : Len(u) = n - 1}, x \in S}

LoadIdle == sheet = [cols |-> {}, rows |-> <<>>] /\ data_map = EmptyMap /\ load_pc = "idle"

LoadInit ==
    /\ sheet \in [cols : ColumnSets, rows : SeqsUpTo(Rows, MaxRows)]
    /\ data_map = EmptyMap
    /\ load_pc = "start"

\* data_map = load_and_prepare_data(config.csv_path)
LoadAndPrepareData ==
    /\ load_pc = "start"
    /\ data_map' = load_and_prepare_data(sheet)
    /\ load_pc' = IF "t1" \in sheet.cols THEN "loaded" ELSE "failed"
    /\ UNCHANGED <<sheet, canon_vars, parse_vars, pipe_vars, excel_vars, clean_vars, match_vars, merge_vars, late_vars>>

(***************************************************************************)
(* Response parsers                                                        *)
(***************************************************************************)
LowerCase ==
    <<"a", "b", "c", "d", "e", "f", "g", "h", "i", "j", "k", "l", "m",
      "n", "o", "p", "q", "r", "s", "t", "u", "v", "w", "x", "y", "z">>

UpperCase ==
    <<"A", "B", "C", "D", "E", "F", "G", "H", "I", "J", "K", "L", "M",
      "N", "O", "P", "Q", "R", "S", "T", "U", "V", "W", "X", "Y", "Z">>

\* the letter of `to` at the place c has in `from`, or c itself
MapChar(c, from, to) ==
    IF \E i \in 1..Len(from) : from[i] = c
    THEN to[CHOOSE i \in 1..Len(from) : from[i] = c]
    ELSE c

\* str.upper()
upper(s) == [i \in 1..Len(s) |-> MapChar(s[i], LowerCase, UpperCase)]

\* str.lower()
lower(s) == [i \in 1..Len(s) |-> MapChar(s[i], UpperCase, LowerCase)]

\* LANGUAGE_MAPPING: language -> (headline tag, description tag)
LANGUAGE_MAPPING ==
    [Deutsch |-> <<<<"T", "I", "T", "E", "L">>,
                   <<"B", "E", "S", "C", "H", "R", "E", "I", "B", "U", "N", "G">>>>,
     English |-> <<<<"H", "E", "A", "D", "L", "I", "N", "E">>,
                   <<"D", "E", "S", "C", "R", "I", "P", "T", "I", "O", "N">>>>]

\* FALLBACK_CAPTIONS of the caption generator
FALLBACK_CAPTIONS ==
    <<
      <<"a", " ", "d", "e", "t", "a", "i", "l", "e", "d", " ", "s", "c", "e", "n", "e", " ",
        "w", "i", "t", "h", " ", "m", "u", "l", "t", "i", "p", "l", "e", " ", "v", "i", "s",
        "u", "a", "l", " ", "e", "l", "e", "m", "e", "n", "t", "s", " ", "a", "n", "d", " ",
        "c", "h", "a", "r", "a", "c", "t", "e", "r", "s">>,
      <<"a", " ", "c", "o", "m", "p", "o", "s", "i", "t", "i", "o", "n", " ", "f", "e", "a",
        "t", "u", "r", "i", "n", "g", " ", "p", "e", "o", "p", "l", "e", " ", "i", "n", " ",
        "a", "n", " ", "e", "n", "v", "i", "r", "o", "n", "m", "e", "n", "t", " ", "w", "i",
        "t", "h", " ", "v", "a", "r", "i", "o", "u", "s", " ", "d", "e", "t", "a", "i", "l",
        "s">>,
      <<"a", " ", "v", "i", "s", "u", "a", "l", " ", "n", "a", "r", "r", "a", "t", "i", "v",
        "e", " ", "s", "h", "o", "w", "i", "n", "g", " ", "c", "h", "a", "r", "a", "c", "t",
        "e", "r", "s", " ", "a", "n", "d", " ", "t", "h", "e", "i", "r", " ", "s", "u", "r",
        "r", "o", "u", "n", "d", "i", "n", "g", "s">>,
      <<"a", "n", " ", "i", "m", "a", "g", "e", " ", "d", "e", "p", "i", "c", "t", "i", "n",
        "g", " ", "f", "i", "g", "u", "r", "e", "s", " ", "i", "n", " ", "a", " ", "s", "e",
        "t", "t", "i", "n", "g", " ", "w", "i", "t", "h", " ", "a", "t", "m", "o", "s", "p",
        "h", "e", "r", "i", "c", " ", "e", "l", "e", "m", "e", "n", "t", "s">>,
      <<"a", " ", "s", "c", "e", "n", "e", " ", "w", "i", "t", "h", " ", "c", "h", "a", "r",
        "a", "c", "t", "e", "r", "s", ",", " ", "e", "n", "v", "i", "r", "o", "n", "m", "e",
        "n", "t", ",", " ", "a", "n", "d", " ", "c", "o", "m", "p", "o", "s", "i", "t", "i",
        "o", "n", "a", "l", " ", "d", "e", "t", "a", "i", "l", "s">>
    >>

\* UNWANTED_PHRASES of the caption generator, in list order
UNWANTED_PHRASES ==
    <<
      <<"t", "h", "i", "s", " ", "i", "m", "a", "g", "e", " ", "s", "h", "o", "w", "s">>,
      <<"i", "n", " ", "t", "h", "i", "s", " ", "s", "c", "e", "n", "e">>,
      <<"i", "n", " ", "t", "h", "e", " ", "i", "m", "a", "g", "e">>,
      <<"t", "h", "e", " ", "i", "m", "a", "g", "e", " ", "d", "e", "p", "i", "c", "t", "s">>,
      <<"h", "e", "r", "e", " ", "w", "e", " ", "s", "e", "e">>,
      <<"t", "h", "i", "s", " ", "i", "s", " ", "a">>,
      <<"d", "i", "e", "s", "e", "s", " ", "b", "i", "l", "d", " ", "z", "e", "i", "g", "t">>,
      <<"i", "n", " ", "d", "i", "e", "s", "e", "r", " ", "s", "z", "e", "n", "e">>,
      <<"i", "m", " ", "b", "i", "l", "d", " ", "i", "s", "t">>,
      <<"d", "i", "e", " ", "a", "b", "b", "i", "l", "d", "u", "n", "g", " ", "z", "e", "i",
        "g", "t">>,
      <<"a", "u", "f", " ", "d", "i", "e", "s", "e", "m", " ", "b", "i", "l", "d">>,
      <<"m", "a", "n", " ", "s", "i", "e", "h", "t", " ", "h", "i", "e", "r">>,
      <<"t", "e", "n", " ", "o", "b", "r", "a", "z", " ", "p", "r", "z", "e", "d", "s", "t",
        "a", "w", "i", "a">>,
      <<"n", "a", " ", "t", "e", "j", " ", "s", "c", "e", "n", "i", "e">>,
      <<"n", "a", " ", "z", "d", "j", "U+0119", "c", "i", "u">>,
      <<"z", "d", "j", "U+0119", "c", "i", "e", " ", "p", "r", "z", "e", "d", "s", "t", "a",
        "w", "i", "a">>,
      <<"t", "u", " ", "w", "i", "d", "z", "i", "m", "y">>,
      <<"j", "e", "s", "t", " ", "t", "o">>,
      <<"U+0161", "i", "s", " ", "p", "a", "v", "e", "i", "k", "s", "l", "a", "s", " ", "r",
        "o", "d", "o">>,
      <<"U+0161", "i", "o", "j", "e", " ", "s", "c", "e", "n", "o", "j", "e">>,
      <<"n", "u", "o", "t", "r", "a", "u", "k", "o", "j", "e">>,
      <<"n", "u", "o", "t", "r", "a", "u", "k", "a", " ", "v", "a", "i", "z", "d", "u", "o",
        "j", "a">>,
      <<"U+010D", "i", "a", " ", "m", "a", "t", "o", "m", "e">>,
      <<"t", "a", "i", " ", "y", "r", "a">>
    >>

\* the headline fallback of the state-tracking parser
Untitled ==
    <<"U", "n", "t", "i", "t", "l", "e", "d">>

\* the description fallback of the state-tracking parser
DescriptionNotAvailable ==
    <<"D", "e", "s", "c", "r", "i", "p", "t", "i", "o", "n", " ", "n", "o", "t", " ", "a", "v",
      "a", "i", "l", "a", "b", "l", "e", ".">>

\* the headline fallback of the caption generator
UntitledScene ==
    <<"U", "n", "t", "i", "t", "l", "e", "d", " ", "S", "c", "e", "n", "e">>

\* what _clean_caption returns for a too short text
CleanFallback ==
    <<"a", " ", "d", "e", "t", "a", "i", "l", "e", "d", " ", "s", "c", "e", "n", "e", " ", "w",
      "i", "t", "h", " ", "v", "i", "s", "u", "a", "l", " ", "e", "l", "e", "m", "e", "n", "t",
      "s">>

\* the headline fallback of Experiment3.1
UntitledObject ==
    <<"U", "n", "t", "i", "t", "l", "e", "d", " ", "O", "b", "j", "e", "c", "t">>

\* the description fallback of Experiment3.1
DetailedObjectDescription ==
    <<"D", "e", "t", "a", "i", "l", "e", "d", " ", "o", "b", "j", "e", "c", "t", " ", "d", "e",
      "s", "c", "r", "i", "p", "t", "i", "o", "n", ".">>

\* the shortest text _clean_caption lets through
MinCaptionLen == 10

\* one round of the loop over UNWANTED_PHRASES: c = [caption, caption_lower]
clean_phrase(c, phrase) ==
    IF startswith(c.caption_lower, phrase)
    THEN LET cut == strip(Drop(c.caption, Len(Take(c.caption, Len(phrase)))))
         IN  [caption |-> lstrip(cut, {",", ":", "."}), caption_lower |-> lower(cut)]
    ELSE c

\* _clean_caption
clean_caption(text) ==
    LET F[i \in 0..Len(UNWANTED_PHRASES)] ==
            IF i = 0 THEN [caption |-> strip(text), caption_lower |-> lower(strip(text))]
            ELSE clean_phrase(F[i - 1], UNWANTED_PHRASES[i])
        caption == rstrip(F[Len(UNWANTED_PHRASES)].caption, {".", ",", ";", "!", "?"})
    IN  IF caption = <<>> \/ Len(caption) < MinCaptionLen THEN CleanFallback ELSE caption

\* the parsers: the state-tracking one of the CSV-enriched generator (and of the
\* GUI), the one of the caption generator, the one of Experiment3.1
ParserKinds == {"enriched", "caption", "exp31"}

\* f'{tag.upper()}:'
prefix_of(tag) == Append(upper(tag), ":")

\* the parser's variables before the first line
parse_start == [headline |-> <<>>, description |-> <<>>, in_description |-> FALSE]

\* a plausible slip: the headline label leaves the description open
parse_line_enriched_no_reset(st, line, tags) ==
    LET stripped_line == strip(line) IN
    IF stripped_line = <<>> THEN st
    ELSE IF startswith(upper(stripped_line), prefix_of(tags[1]))
    THEN [st EXCEPT !.headline = strip(Drop(stripped_line, Len(prefix_of(tags[1]))))]
    ELSE IF startswith(upper(stripped_line), prefix_of(tags[2]))
    THEN [st EXCEPT !.description = strip(Drop(stripped_line, Len(prefix_of(tags[2])))),
                    !.in_description = TRUE]
    ELSE IF st.in_description
    THEN [st EXCEPT !.description = st.description \o <<" ">> \o stripped_line]
    ELSE st

\* body of the loop of the state-tracking _parse_response
parse_line_enriched(st, line, tags) ==
    LET stripped_line == strip(line) IN
    IF stripped_line = <<>> THEN st
    ELSE IF startswith(upper(stripped_line), prefix_of(tags[1]))
    THEN [st EXCEPT !.headline = strip(Drop(stripped_line, Len(prefix_of(tags[1])))),
                    !.in_description = FALSE]
    ELSE IF startswith(upper(stripped_line), prefix_of(tags[2]))
    THEN [st EXCEPT !.description = strip(Drop(stripped_line, Len(prefix_of(tags[2])))),
                    !.in_description = TRUE]
    ELSE IF st.in_description
    THEN [st EXCEPT !.description = st.description \o <<" ">> \o stripped_line]
    ELSE st

\* a plausible slip: a line without label is never taken as the description
parse_line_caption_no_fallback(st, raw_line, tags) ==
    LET line == strip(raw_line) IN
    IF startswith(upper(line), prefix_of(tags[1]))
    THEN [st EXCEPT !.headline = strip(Drop(line, Len(prefix_of(tags[1]))))]
    ELSE IF startswith(upper(line), prefix_of(tags[2]))
    THEN [st EXCEPT !.description = strip(Drop(line, Len(prefix_of(tags[2]))))]
    ELSE IF st.description # <<>>
    THEN [st EXCEPT !.description = st.description \o <<" ">> \o line]
    ELSE st

\* body of the loop of the caption generator's _parse_response
parse_line_caption(st, raw_line, tags) ==
    LET line == strip(raw_line) IN
    IF startswith(upper(line), prefix_of(tags[1]))
    THEN [st EXCEPT !.headline = strip(Drop(line, Len(prefix_of(tags[1]))))]
    ELSE IF startswith(upper(line), prefix_of(tags[2]))
    THEN [st EXCEPT !.description = strip(Drop(line, Len(prefix_of(tags[2]))))]
    ELSE IF st.headline # <<>> /\ st.description = <<>>
    THEN [st EXCEPT !.description = line]
    ELSE IF st.description # <<>>
    THEN [st EXCEPT !.description = st.description \o <<" ">> \o line]
    ELSE st

\* body of the loop of Experiment3.1's _parse_response
parse_line_exp31(st, line, tags) ==
    IF startswith(upper(line), prefix_of(tags[1]))
    THEN [st EXCEPT !.headline = strip(Drop(line, Len(prefix_of(tags[1]))))]
    ELSE IF startswith(upper(line), prefix_of(tags[2]))
    THEN [st EXCEPT !.description = strip(Drop(line, Len(prefix_of(tags[2]))))]
    ELSE st

\* a plausible slip: continuation lines are not appended
parse_line_no_continuation(kind, st, line, tags) == parse_line_exp31(st, line, tags)

\* the loop body of the parser of the given kind
parse_line(kind, st, line, tags) ==
    CASE kind = "enriched" -> parse_line_enriched(st, line, tags)
      [] kind = "caption" -> parse_line_caption(st, line, tags)
      [] kind = "exp31" -> parse_line_exp31(st, line, tags)

\* x or y
or_else(x, y) == IF x # <<>> THEN x ELSE y

\* a plausible slip: the values are returned as extracted, without the fallbacks
parse_return_raw(kind, st, choice) == <<st.headline, st.description>>

\* the return statement of each parser; choice is what random.choice draws
parse_return(kind, st, choice) ==
    CASE kind = "enriched" ->
            <<or_else(st.headline, Untitled),
              or_else(strip(st.description), DescriptionNotAvailable)>>
      [] kind = "caption" ->
            <<IF st.headline # <<>> THEN clean_caption(st.headline) ELSE UntitledScene,
              IF st.description # <<>> THEN clean_caption(st.description)
              ELSE FALLBACK_CAPTIONS[choice]>>
      [] kind = "exp31" ->
            <<or_else(st.headline, UntitledObject),
              or_else(st.description, DetailedObjectDescription)>>

\* text.strip().split('\n')
response_lines(text) == split(strip(text), "\n")

\* the loop over all lines
parse_lines(kind, lines, tags) ==
    LET F[i \in 0..Len(lines)] ==
            IF i = 0 THEN parse_start ELSE parse_line(kind, F[i - 1], lines[i], tags)
    IN  F[Len(lines)]

\* _parse_response as a whole
parse_response(kind, text, tags, choice) ==
    parse_return(kind, parse_lines(kind, response_lines(text), tags), choice)

\* lines a generated text is made of
GenLines ==
    {<<>>,
     <<"H", "E", "A", "D", "L", "I", "N", "E", ":", " ", "F", "o", "o">>,
     <<"H", "e", "a", "d", "l", "i", "n", "e", ":", "B", "r", "a", "s", "s", " ", "l", "a",
       "m", "p", ",", " ", "1", "9", "3", "4", "!">>,
     <<"D", "E", "S", "C", "R", "I", "P", "T", "I", "O", "N", ":", " ", "B", "a", "r", " ",
       "b", "a", "z", ".">>,
     <<" ", "D", "e", "s", "c", "r", "i", "p", "t", "i", "o", "n", ":", " ", "T", "h", "i",
       "s", " ", "i", "m", "a", "g", "e", " ", "s", "h", "o", "w", "s", ":", " ", "a", " ",
       "b", "r", "a", "s", "s", " ", "l", "a", "m", "p", ".">>,
     <<"q", "u", "x", ".">>,
     <<"D", "E", "S", "C", "R", "I", "P", "T", "I", "O", "N", ":">>,
     <<"T", "I", "T", "E", "L", ":", " ", "L", "a", "m", "p", "e">>}

\* the text of the round-trip example
RoundTripText ==
    <<"H", "E", "A", "D", "L", "I", "N", "E", ":", " ", "F", "o", "o", "\n", "D", "E", "S",
      "C", "R", "I", "P", "T", "I", "O", "N", ":", " ", "B", "a", "r", " ", "b", "a", "z", ".",
      "\n", "q", "u", "x", ".">>

\* the texts handed to the parsers: up to MaxLines lines joined by newlines
ParseTexts == {join(ls, "\n") : ls \in SeqsUpTo(GenLines, MaxLines)} \cup {RoundTripText}

ParseIdle ==
    /\ p_kind = "none" /\ p_lang = "none" /\ p_text = <<>> /\ p_lines = <<>> /\ p_i = 0
    /\ p_st = parse_start /\ p_result = <<>> /\ p_pc = "idle"

ParseInit ==
    /\ p_kind \in ParserKinds
    /\ p_lang \in DOMAIN LANGUAGE_MAPPING
    /\ p_text \in ParseTexts
    /\ p_lines = <<>> /\ p_i = 0 /\ p_st = parse_start /\ p_result = <<>> /\ p_pc = "start"

\* entry of _parse_response: the text is cut into lines
ParseBegin ==
    /\ p_pc = "start"
    /\ p_lines' = response_lines(p_text)
    /\ p_i' = 1
    /\ p_pc' = "lines"
    /\ UNCHANGED <<p_kind, p_lang, p_text, p_st, p_result, canon_vars, load_vars, pipe_vars, excel_vars, clean_vars, match_vars, merge_vars, late_vars>>

\* one round of the loop over the lines
ParseLine ==
    /\ p_pc = "lines" /\ p_i <= Len(p_lines)
    /\ p_st' = parse_line(p_kind, p_st, p_lines[p_i], LANGUAGE_MAPPING[p_lang])
    /\ p_i' = p_i + 1
    /\ UNCHANGED <<p_kind, p_lang, p_text, p_lines, p_result, p_pc, canon_vars, load_vars, pipe_vars, excel_vars, clean_vars, match_vars, merge_vars, late_vars>>

\* the return statement after the last line
ParseReturn ==
    /\ p_pc = "lines" /\ p_i > Len(p_lines)
    /\ \E choice \in 1..Len(FALLBACK_CAPTIONS) :
          p_result' = parse_return(p_kind, p_st, choice)
    /\ p_pc' = "done"
    /\ UNCHANGED <<p_kind, p_lang, p_text, p_lines, p_i, p_st, canon_vars, load_vars, pipe_vars, excel_vars, clean_vars, match_vars, merge_vars, late_vars>>

(***************************************************************************)
(* Image grouping and the per-object loop                                  *)
(***************************************************************************)
\* characters of file names and paths in code-point order, for sorted()
CodePoints ==
    <<"-", ".", "/", "0", "1", "2", "3", "4", "5", "6", "7", "8", "9">>
        \o UpperCase \o LowerCase

CodePoint(c) == CHOOSE i \in 1..Len(CodePoints) : CodePoints[i] = c

RECURSIVE str_less(_, _)
\* a < b for Python strings
str_less(a, b) ==
    IF b = <<>> THEN FALSE
    ELSE IF a = <<>> THEN TRUE
    ELSE IF Head(a) = Head(b) THEN str_less(Tail(a), Tail(b))
    ELSE CodePoint(Head(a)) < CodePoint(Head(b))

\* list with x put before the first element greater than x
insert_sorted(q, x) ==
    LET before == {i \in 1..Len(q) : \A j \in 1..i : ~str_less(x, q[j])}
        n == Cardinality(before)
    IN  SubSeq(q, 1, n) \o <<x>> \o SubSeq(q, n + 1, Len(q))

\* sorted(list of strings)
sorted(q) ==
    LET F[i \in 0..Len(q)] == IF i = 0 THEN <<>> ELSE insert_sorted(F[i - 1], q[i])
    IN  F[Len(q)]

\* Path(filename).suffix: from the last dot on, when that dot is neither the
\* first nor the last character of the name
suffix(name) ==
    LET dots == {i \in 1..Len(name) : name[i] = "."} IN
    IF dots = {} THEN <<>>
    ELSE LET i == CHOOSE d \in dots : \A e \in dots : e <= d
         IN  IF 1 < i /\ i < Len(name) THEN Drop(name, i - 1) ELSE <<>>

ImageSuffixes == {<<".", "j", "p", "g">>, <<".", "j", "p", "e", "g">>, <<".", "p", "n", "g">>}

\* parts of a file name that make the object ID; parts of the ID that make the lookup key
GroupSegments == 4
LookupSegments == 3
\* images sent with one generation call
MaxImages == 4

\* the folder the images are read from
Directory == <<"d">>

\* os.path.join(directory, filename)
path_join(dir, filename) == dir \o <<"/">> \o filename

\* '-'.join(filename.split('-')[:4])
object_id_of(filename) == join(Take(split(filename, "-"), GroupSegments), "-")

\* image_groups[object_id].append(path): groups is the dict in insertion order
group_append(groups, object_id, path) ==
    IF \E i \in 1..Len(groups) : groups[i].object_id = object_id
    THEN [i \in 1..Len(groups) |->
            IF groups[i].object_id = object_id
            THEN [groups[i] EXCEPT !.image_files = Append(@, path)]
            ELSE groups[i]]
    ELSE Append(groups, [object_id |-> object_id, image_files |-> <<path>>])

\* _group_images_by_id (and the same loop inside run_processing_logic)
group_images_by_id(files) ==
    LET F[i \in 0..Len(files)] ==
            IF i = 0 THEN <<>>
            ELSE IF lower(suffix(files[i])) \in ImageSuffixes
            THEN group_append(F[i - 1], object_id_of(files[i]), path_join(Directory, files[i]))
            ELSE F[i - 1]
    IN  F[Len(files)]

\* a plausible slip: the key keeps as many parts as the object ID
lookup_key_of_four(object_id) == join(Take(split(object_id, "-"), GroupSegments), "-")

\* lookup_key = '-'.join(object_id.split('-')[:3])
lookup_key_of(object_id) == join(Take(split(object_id, "-"), LookupSegments), "-")

\* a plausible slip: the first four paths as listed, without sorting
files_to_process_unsorted(image_files) == Take(image_files, MaxImages)

\* sorted(image_files)[:4]
files_to_process(image_files) == Take(sorted(image_files), MaxImages)

\* dict.get(key, {}) on the lookup table
map_get(map, key) == IF key \in DOMAIN map THEN map[key] ELSE <<>>

\* object_data['object_id'] = object_id
with_object_id(object_data, object_id) ==
    [f \in DOMAIN object_data \cup {"object_id"} |->
        IF f = "object_id" THEN object_id ELSE object_data[f]]

\* object_data.get(field, 'N/A')
data_get(object_data, field) ==
    IF field \in DOMAIN object_data THEN object_data[field] ELSE NA

\* the database fields of the prompt, CSV-enriched generator:
\* date=object_data.get('date', 'N/A'), material=..., dimensions=...
prompt_fields(object_data) ==
    [material |-> data_get(object_data, "material"),
     date |-> data_get(object_data, "date"),
     dimensions |-> data_get(object_data, "dimensions")]

\* str(e) of the KeyError that str.format raises for the first database field
\* of the template that object_data lacks
KeyErrorDate == <<"'date'">>

\* the database fields of the prompt, GUI: CAPTION_PROMPT_TEMPLATE.format(...,
\* **object_data) raises KeyError when object_data lacks a field of the template
prompt_fields_gui(object_data) ==
    IF {"date", "material", "dimensions"} \subseteq DOMAIN object_data
    THEN [material |-> object_data.material, date |-> object_data.date,
          dimensions |-> object_data.dimensions]
    ELSE [raised |-> KeyErrorDate]

\* the scripts with a per-object loop
Scripts == {"enriched", "exp31", "gui"}

\* file names of the image folder
FileNames ==
    {<<"1", "-", "2", "-", "3", "-", "4", "-", "a", ".", "j", "p", "g">>,
     <<"1", "-", "2", "-", "3", "-", "4", "-", "b", ".", "J", "P", "G">>,
     <<"1", "-", "2", "-", "3", "-", "4", ".", "j", "p", "g">>,
     <<"5", "-", "6", "-", "7", "-", "8", "-", "a", ".", "p", "n", "g">>,
     <<"9", "-", "9", ".", "p", "n", "g">>,
     <<"x", ".", "t", "x", "t">>}

\* directory listings: os.listdir returns the names in any order
Listings == {q \in SeqsUpTo(FileNames, MaxFiles) : \A i, j \in 1..Len(q) : i # j => q[i] # q[j]}

\* spreadsheets of the pipeline runs: one row for object 1-2-3, and a sheet
\* without the ID column
PipeSheets ==
    {[cols |-> {"t1", "T3", "T5", "T14"},
      rows |-> <<[t1 |-> <<"1", "/", "2", "/", "3", " ", "0">>, T3 |-> <<"Brass">>,
                  T5 |-> <<>>, T14 |-> <<"1934">>]>>],
     [cols |-> {"T3", "T5", "T14"},
      rows |-> <<[t1 |-> <<>>, T3 |-> <<"Iron">>, T5 |-> <<"20cm">>, T14 |-> <<"1950">>]>>]}

\* texts the model returns in the pipeline runs: a labelled one, an unlabelled one
JunkText == <<"n", "o", " ", "l", "a", "b", "e", "l", "s">>

GenTexts == {RoundTripText, JunkText}

\* str(e) of the exceptions of a generation call
ErrorMessages == {<<"quota exceeded">>}

\* values of rate_limit_batch: the default and a smaller configured one
RateLimitBatches == {2, 5}
\* the batch size written into run_processing_logic
GuiBatch == 5

FallbackGenerationFailed == <<"F", "a", "l", "l", "b", "a", "c", "k", ":", " ", "G", "e", "n", "e", "r", "a", "t", "i",
      "o", "n", " ", "f", "a", "i", "l", "e", "d", ".">>

FallbackDescription == <<"F", "a", "l", "l", "b", "a", "c", "k", " ", "d", "e", "s", "c", "r", "i", "p", "t", "i",
      "o", "n", ".">>

ErrorHeadline == <<"E", "r", "r", "o", "r">>

FatalError == <<"F", "a", "t", "a", "l", " ", "e", "r", "r", "o", "r", ":", " ">>

\* the language of the pipeline runs
PipeLanguage == "English"

PipeIdle ==
    /\ script = "none" /\ api_key = FALSE /\ listing = <<>> /\ rate_limit_batch = 0 /\ object_groups = <<>>
    /\ idx = 0 /\ processed_count = 0 /\ output = <<>> /\ calls = <<>> /\ sleeps = <<>>
    /\ pipe_pc = "idle"

PipeInit ==
    /\ script \in Scripts
    /\ api_key \in BOOLEAN
    /\ listing \in Listings
    /\ rate_limit_batch \in (IF script = "gui" THEN {GuiBatch} ELSE RateLimitBatches)
    /\ sheet \in (IF script = "exp31" THEN {[cols |-> {}, rows |-> <<>>]} ELSE PipeSheets)
    /\ data_map = EmptyMap
    /\ load_pc = "idle"
    /\ object_groups = <<>> /\ idx = 0 /\ processed_count = 0
    /\ output = <<>> /\ calls = <<>> /\ sleeps = <<>>
    /\ pipe_pc = "main"

\* a plausible slip: the empty table is not tested and the run goes on
PipeLoadUnchecked ==
    /\ pipe_pc = "main" /\ script \in {"enriched", "gui"}
    /\ data_map' = load_and_prepare_data(sheet)
    /\ load_pc' = IF "t1" \in sheet.cols THEN "loaded" ELSE "failed"
    /\ pipe_pc' = "ready"
    /\ UNCHANGED <<sheet, script, api_key, listing, rate_limit_batch, object_groups, idx,
                   processed_count, output, calls, sleeps, canon_vars, parse_vars, excel_vars,
                   clean_vars, match_vars, merge_vars, late_vars>>

\* main / run_processing_logic: data_map = load_and_prepare_data(...); if not data_map: return
PipeLoad ==
    /\ pipe_pc = "main" /\ script \in {"enriched", "gui"}
    /\ data_map' = load_and_prepare_data(sheet)
    /\ load_pc' = IF "t1" \in sheet.cols THEN "loaded" ELSE "failed"
    /\ pipe_pc' = IF load_and_prepare_data(sheet) = EmptyMap THEN "returned" ELSE "ready"
    /\ UNCHANGED <<sheet, script, api_key, listing, rate_limit_batch, object_groups, idx,
                   processed_count, output, calls, sleeps, canon_vars, parse_vars, excel_vars, clean_vars, match_vars, merge_vars, late_vars>>

\* main of Experiment3.1: ObjectProcessor(config) builds the generator, whose
\* constructor raises ValueError without GOOGLE_API_KEY; main reports it
ConstructExp31 ==
    /\ pipe_pc = "main" /\ script = "exp31"
    /\ pipe_pc' = IF api_key THEN "ready" ELSE "aborted"
    /\ UNCHANGED <<load_vars, script, api_key, listing, rate_limit_batch, object_groups, idx,
                   processed_count, output, calls, sleeps, canon_vars, parse_vars, excel_vars,
                   clean_vars, match_vars, merge_vars, late_vars>>

\* process(): the images are grouped; without groups the command-line scripts
\* return, otherwise the output file is opened and its header written. The GUI
\* builds its GeminiProcessor after the grouping: without GOOGLE_API_KEY the
\* constructor raises ValueError, which run_processing_logic reports
GroupImages ==
    /\ pipe_pc = "ready"
    /\ object_groups' = group_images_by_id(listing)
    /\ pipe_pc' = IF script = "gui"
                  THEN IF api_key THEN "loop" ELSE "aborted"
                  ELSE IF group_images_by_id(listing) = <<>> THEN "returned" ELSE "loop"
    /\ UNCHANGED <<load_vars, script, api_key, listing, rate_limit_batch, idx, processed_count,
                   output, calls, sleeps, canon_vars, parse_vars, excel_vars, clean_vars, match_vars, merge_vars, late_vars>>

\* the rate-limit test at the end of a loop body
pause_due(count, i, batch) == count % batch = 0 /\ i < Len(object_groups)

\* what generate_object_description returns: None, or the parsed text. The
\* CSV-enriched generator configures the client with whatever key it finds,
\* so without a key every generate_content raises and None is returned
GenerationResults(kind) ==
    IF api_key
    THEN {<<>>} \cup {parse_response(kind, text, LANGUAGE_MAPPING[PipeLanguage], 1) :
                        text \in GenTexts}
    ELSE {<<>>}

\* one round of the loop of _process_objects, CSV-enriched generator.
\* raised: no exception, one raised in the try block before the row is
\* written, one raised by the pause after the row was written
ProcessObjectEnriched ==
    /\ pipe_pc = "loop" /\ script = "enriched" /\ idx < Len(object_groups)
    /\ LET i == idx + 1
           object_id == object_groups[i].object_id
           key == lookup_key_of(object_id)
           object_data == with_object_id(map_get(data_map, key), object_id)
           files == files_to_process(object_groups[i].image_files)
           error_row == [object_id |-> object_id, headline |-> ErrorHeadline,
                         description |-> FatalError \o <<"e">>,
                         material |-> NA, date |-> NA, dimensions |-> NA]
       IN  \E result \in GenerationResults("enriched"), raised \in {"no", "before_write", "in_pause"} :
             LET pair == IF result # <<>> THEN result ELSE <<Untitled, FallbackGenerationFailed>>
                 row == [object_id |-> object_id, headline |-> pair[1], description |-> pair[2],
                         material |-> data_get(object_data, "material"),
                         date |-> data_get(object_data, "date"),
                         dimensions |-> data_get(object_data, "dimensions")]
             IN  /\ raised = "in_pause" => pause_due(i, i, rate_limit_batch)
                 /\ calls' = Append(calls, [object_id |-> object_id, lookup_key |-> key,
                                            files |-> files, object_data |-> object_data,
                                            prompt |-> prompt_fields(object_data)])
                 /\ output' = CASE raised = "no" -> Append(output, row)
                                [] raised = "before_write" -> Append(output, error_row)
                                [] raised = "in_pause" -> output \o <<row, error_row>>
                 /\ sleeps' = IF raised = "no" /\ pause_due(i, i, rate_limit_batch)
                              THEN Append(sleeps, i) ELSE sleeps
                 /\ idx' = i
    /\ UNCHANGED <<load_vars, script, api_key, listing, rate_limit_batch, object_groups,
                   processed_count, pipe_pc, canon_vars, parse_vars, excel_vars, clean_vars, match_vars, merge_vars, late_vars>>

\* one round of the loop of _process_objects, Experiment3.1
ProcessObjectExp31 ==
    /\ pipe_pc = "loop" /\ script = "exp31" /\ idx < Len(object_groups)
    /\ LET i == idx + 1
           object_id == object_groups[i].object_id
           files == files_to_process(object_groups[i].image_files)
       IN  \E result \in GenerationResults("exp31"), raised \in {"no", "before_write", "in_pause"} :
             LET pair == IF result # <<>> THEN result ELSE <<UntitledObject, FallbackDescription>>
                 row == [object_id |-> object_id, headline |-> pair[1], description |-> pair[2]]
             IN  /\ raised = "in_pause" => pause_due(processed_count + 1, i, rate_limit_batch)
                 /\ calls' = Append(calls, [object_id |-> object_id, lookup_key |-> <<>>,
                                            files |-> files, object_data |-> <<>>,
                                            prompt |-> <<>>])
                 /\ output' = IF raised = "before_write" THEN output ELSE Append(output, row)
                 /\ processed_count' = IF raised = "before_write" THEN processed_count
                                       ELSE processed_count + 1
                 /\ sleeps' = IF raised = "no"
                              THEN IF pause_due(processed_count + 1, i, rate_limit_batch)
                                   THEN Append(sleeps, i) ELSE sleeps
                              ELSE Append(sleeps, i)
                 /\ idx' = i
    /\ UNCHANGED <<load_vars, script, api_key, listing, rate_limit_batch, object_groups,
                   pipe_pc, canon_vars, parse_vars, excel_vars, clean_vars, match_vars, merge_vars, late_vars>>

\* what generate_description of the GUI returns: (None, str(e)) or the parsed
\* text; the prompt cannot be formatted when a metadata field is missing
GuiResults(object_data) ==
    IF "raised" \notin DOMAIN prompt_fields_gui(object_data)
    THEN {<<<<"None">>, m>> : m \in ErrorMessages}
            \cup {parse_response("enriched", text, LANGUAGE_MAPPING[PipeLanguage], 1) :
                    text \in GenTexts}
    ELSE {<<<<"None">>, prompt_fields_gui(object_data).raised>>}

\* one round of the loop of run_processing_logic; object_data is the entry of
\* the lookup table itself, so the object ID is written into the table
ProcessObjectGui ==
    /\ pipe_pc = "loop" /\ script = "gui" /\ idx < Len(object_groups)
    /\ LET i == idx + 1
           object_id == object_groups[i].object_id
           key == lookup_key_of(object_id)
           object_data == with_object_id(map_get(data_map, key), object_id)
           files == files_to_process(object_groups[i].image_files)
       IN  /\ data_map' = IF key \in DOMAIN data_map
                          THEN [data_map EXCEPT ![key] = object_data] ELSE data_map
           /\ \E result \in GuiResults(object_data) :
                LET pair == IF result[1] = <<"None">> THEN <<ErrorHeadline, result[2]>> ELSE result
                IN  /\ calls' = Append(calls, [object_id |-> object_id, lookup_key |-> key,
                                               files |-> files, object_data |-> object_data,
                                               prompt |-> prompt_fields_gui(object_data)])
                    /\ output' = Append(output,
                          [object_id |-> object_id, headline |-> pair[1], description |-> pair[2],
                           material |-> data_get(object_data, "material"),
                           date |-> data_get(object_data, "date"),
                           dimensions |-> data_get(object_data, "dimensions")])
           /\ sleeps' = IF pause_due(i, i, GuiBatch) THEN Append(sleeps, i) ELSE sleeps
           /\ idx' = i
    /\ UNCHANGED <<sheet, load_pc, script, api_key, listing, rate_limit_batch, object_groups,
                   processed_count, pipe_pc, canon_vars, parse_vars, excel_vars, clean_vars, match_vars, merge_vars, late_vars>>

\* the loop is over: the with block closes the output file
CloseOutput ==
    /\ pipe_pc = "loop" /\ idx = Len(object_groups)
    /\ pipe_pc' = "closed"
    /\ UNCHANGED <<load_vars, script, api_key, listing, rate_limit_batch, object_groups, idx,
                   processed_count, output, calls, sleeps, canon_vars, parse_vars, excel_vars, clean_vars, match_vars, merge_vars, late_vars>>

PipeNext ==
    \/ PipeLoad \/ ConstructExp31 \/ GroupImages \/ ProcessObjectEnriched \/ ProcessObjectExp31
    \/ ProcessObjectGui \/ CloseOutput

(***************************************************************************)
(* The multi-language catalog script: parse_structured and process_excel   *)
(***************************************************************************)
\* KNOWN_LABELS, in list order
KNOWN_LABELS ==
    <<<<"T", "i", "t", "l", "e">>,
      <<"O", "b", "j", "e", "c", "t", " ", "I", "D">>,
      <<"M", "a", "n", "u", "f", "a", "c", "t", "u", "r", "e", "r", "/", "C", "o", "l", "l",
        "e", "c", "t", "i", "o", "n">>,
      <<"D", "a", "t", "e">>,
      <<"D", "i", "m", "e", "n", "s", "i", "o", "n", "s">>,
      <<"W", "e", "i", "g", "h", "t">>,
      <<"L", "o", "c", "a", "t", "i", "o", "n">>,
      <<"D", "e", "s", "c", "r", "i", "p", "t", "i", "o", "n">>>>

DescriptionLabel == KNOWN_LABELS[8]

\* str.splitlines() for texts whose only line break is "\n"
splitlines(text) ==
    LET parts == split(text, "\n")
    IN  IF parts[Len(parts)] = <<>> THEN SubSeq(parts, 1, Len(parts) - 1) ELSE parts

\* the labels LABEL_RE can match at the start of the line: after blanks the
\* label in any case, blanks, a colon
labels_matching(line) ==
    LET l == lstrip(line, Whitespace) IN
    {k \in 1..Len(KNOWN_LABELS) :
        /\ startswith(lower(l), lower(KNOWN_LABELS[k]))
        /\ startswith(lstrip(Drop(l, Len(KNOWN_LABELS[k])), Whitespace), <<":">>)}

\* LABEL_RE.match(line) is not None
label_match(line) == labels_matching(line) # {}

\* m.group(1): the label as the line spells it
match_label(line) ==
    LET k == CHOOSE n \in labels_matching(line) : TRUE
    IN  Take(lstrip(line, Whitespace), Len(KNOWN_LABELS[k]))

\* m.group(2).strip()
match_value(line) ==
    LET k == CHOOSE n \in labels_matching(line) : TRUE
        l == lstrip(line, Whitespace)
    IN  strip(Tail(lstrip(Drop(l, Len(KNOWN_LABELS[k])), Whitespace)))

\* result = {k: "" for k in KNOWN_LABELS}
structured_start == [l \in {KNOWN_LABELS[k] : k \in 1..Len(KNOWN_LABELS)} |-> <<>>]

\* result[label] = value: a label spelled in another case makes a key of its own
set_field(result, label, value) ==
    [l \in DOMAIN result \cup {label} |-> IF l = label THEN value ELSE result[l]]

\* the lines from i on up to the next label line, blank ones left out, stripped
RECURSIVE desc_lines_from(_, _)
desc_lines_from(lines, i) ==
    IF i > Len(lines) \/ label_match(lines[i]) THEN <<>>
    ELSE IF strip(lines[i]) # <<>> THEN <<strip(lines[i])>> \o desc_lines_from(lines, i + 1)
    ELSE desc_lines_from(lines, i + 1)

\* index of the first label line from i on, or one past the end
RECURSIVE next_label_from(_, _)
next_label_from(lines, i) ==
    IF i > Len(lines) \/ label_match(lines[i]) THEN i ELSE next_label_from(lines, i + 1)

\* the while loop of parse_structured from line i on
RECURSIVE parse_structured_from(_, _, _)
parse_structured_from(lines, i, result) ==
    IF i > Len(lines) THEN result
    ELSE IF ~label_match(lines[i]) THEN parse_structured_from(lines, i + 1, result)
    ELSE IF lower(match_label(lines[i])) = lower(DescriptionLabel)
    THEN LET value == match_value(lines[i])
             desc_lines == (IF value # <<>> THEN <<value>> ELSE <<>>)
                               \o desc_lines_from(lines, i + 1)
         IN  parse_structured_from(lines, next_label_from(lines, i + 1),
                                   set_field(result, DescriptionLabel, strip(join_strings(desc_lines))))
    ELSE parse_structured_from(lines, i + 1,
                               set_field(result, match_label(lines[i]), match_value(lines[i])))

\* parse_structured
parse_structured(text) == parse_structured_from(splitlines(text), 1, structured_start)

\* the cells of one language in the result row: parsed.get(label, "")
row_cells(parsed) ==
    [l \in {KNOWN_LABELS[k] : k \in {1, 3, 4, 5, 6, 7, 8}} |-> parsed[l]]

NoValidImage == <<"U+274C", " ", "N", "o", " ", "v", "a", "l", "i", "d", " ", "i", "m", "a", "g", "e", " ",
      "f", "o", "u", "n", "d">>

\* the cells of one language when the object has no image
no_image_cells ==
    [l \in {KNOWN_LABELS[k] : k \in {1, 3, 4, 5, 6, 7, 8}} |->
        IF l = DescriptionLabel THEN NoValidImage ELSE <<>>]

\* what generate_catalog_text returns: a labelled entry, an entry whose only
\* label is in lower case, and its two error strings
CatalogTexts ==
    {<<"T", "i", "t", "l", "e", ":", " ", "L", "a", "m", "p", "\n", "D", "a", "t", "e", ":",
       " ", "1", "9", "3", "4", "\n", "D", "e", "s", "c", "r", "i", "p", "t", "i", "o", "n",
       ":", " ", "B", "r", "a", "s", "s", " ", "l", "a", "m", "p", "\n", "w", "i", "t", "h",
       " ", "s", "h", "a", "d", "e", ".">>,
     <<"d", "e", "s", "c", "r", "i", "p", "t", "i", "o", "n", ":", " ", "o", "n", "l", "y",
       " ", "t", "e", "x", "t", "\n">>,
     <<"U+274C", " ", "A", "P", "I", " ", "E", "r", "r", "o", "r", ":", " ", "5", "0", "0",
       " ", "S", "e", "r", "v", "e", "r", " ", "E", "r", "r", "o", "r">>,
     <<"U+274C", " ", "F", "a", "i", "l", "e", "d", " ", "a", "f", "t", "e", "r", " ", "r",
       "e", "t", "r", "i", "e", "s", ".">>}

\* the groups of df.groupby(id_col): the object ID and whether an image file was found
ExcelGroups ==
    {[object_id |-> <<"1", "/", "1", "9", "9", "6", "/", "1", " ">>, images |-> TRUE],
     [object_id |-> <<"2">>, images |-> FALSE],
     [object_id |-> <<" ">>, images |-> TRUE]}

\* the languages asked for
LanguageLists == {<<"English">>, <<"Deutsch", "English">>}

ExcelIdle ==
    /\ xl_groups = <<>> /\ xl_languages = <<>> /\ xl_i = 0 /\ results_rows = <<>>
    /\ xl_pc = "idle"

ExcelInit ==
    /\ xl_groups \in SeqsUpTo(ExcelGroups, MaxObjects)
    /\ xl_languages \in LanguageLists
    /\ xl_i = 0 /\ results_rows = <<>> /\ xl_pc = "loop"

\* one round of the loop over the groups in process_excel
ProcessExcelObject ==
    /\ xl_pc = "loop" /\ xl_i < Len(xl_groups)
    /\ xl_i' = xl_i + 1
    /\ LET group == xl_groups[xl_i + 1]
           object_id == strip(group.object_id)
       IN  IF object_id = <<>> THEN UNCHANGED results_rows
           ELSE IF ~group.images
           THEN results_rows' = Append(results_rows,
                    [object_id |-> object_id,
                     cells |-> [n \in 1..Len(xl_languages) |-> no_image_cells]])
           ELSE \E text \in [1..Len(xl_languages) -> CatalogTexts] :
                    results_rows' = Append(results_rows,
                        [object_id |-> object_id,
                         cells |-> [n \in 1..Len(xl_languages) |->
                                        row_cells(parse_structured(text[n]))]])
    /\ UNCHANGED <<xl_groups, xl_languages, xl_pc, canon_vars, load_vars, parse_vars, pipe_vars, clean_vars, match_vars, merge_vars, late_vars>>

\* after the loop: the rows are written to the Excel file
SaveExcel ==
    /\ xl_pc = "loop" /\ xl_i = Len(xl_groups)
    /\ xl_pc' = "saved"
    /\ UNCHANGED <<xl_groups, xl_languages, xl_i, results_rows,
                   canon_vars, load_vars, parse_vars, pipe_vars, clean_vars, match_vars, merge_vars, late_vars>>

(***************************************************************************)
(* _clean_caption, one phrase at a time                                    *)
(***************************************************************************)
\* pieces of the texts handed to _clean_caption: three unwanted phrases (the
\* 1st, 2nd and 5th of the list), other words, a comma
CleanWords ==
    {<<"T", "h", "i", "s", " ", "i", "m", "a", "g", "e", " ", "s", "h", "o", "w", "s">>,
     <<"i", "n", " ", "t", "h", "i", "s", " ", "s", "c", "e", "n", "e">>,
     <<"H", "e", "r", "e", " ", "w", "e", " ", "s", "e", "e">>,
     <<"a", " ", "b", "r", "a", "s", "s", " ", "l", "a", "m", "p", " ", "o", "n", " ", "a", " ",
      "t", "a", "b", "l", "e">>,
     <<",">>}

\* the texts handed to _clean_caption: up to MaxWords pieces joined by blanks
CleanTexts == {join_strings(ws) : ws \in SeqsUpTo(CleanWords, MaxWords)}

CleanInit ==
    /\ c_text \in CleanTexts
    /\ c_caption = <<>> /\ c_k = 0 /\ c_result = <<>> /\ c_pc = "start"

\* caption = text.strip(); caption_lower = caption.lower()
CleanBegin ==
    /\ c_pc = "start"
    /\ c_caption' = [caption |-> strip(c_text), caption_lower |-> lower(strip(c_text))]
    /\ c_pc' = "phrases"
    /\ UNCHANGED <<c_text, c_k, c_result, canon_vars, load_vars, parse_vars, pipe_vars,
                   excel_vars, match_vars, merge_vars, late_vars>>

\* one round of the loop over UNWANTED_PHRASES
CleanPhrase ==
    /\ c_pc = "phrases" /\ c_k < Len(UNWANTED_PHRASES)
    /\ c_caption' = clean_phrase(c_caption, UNWANTED_PHRASES[c_k + 1])
    /\ c_k' = c_k + 1
    /\ UNCHANGED <<c_text, c_result, c_pc, canon_vars, load_vars, parse_vars, pipe_vars,
                   excel_vars, match_vars, merge_vars, late_vars>>

\* after the loop: trailing punctuation is removed, a short text is replaced
CleanReturn ==
    /\ c_pc = "phrases" /\ c_k = Len(UNWANTED_PHRASES)
    /\ c_result' = LET caption == rstrip(c_caption.caption, {".", ",", ";", "!", "?"})
                   IN  IF caption = <<>> \/ Len(caption) < MinCaptionLen
                       THEN CleanFallback ELSE caption
    /\ c_pc' = "done"
    /\ UNCHANGED <<c_text, c_caption, c_k, canon_vars, load_vars, parse_vars, pipe_vars,
                   excel_vars, match_vars, merge_vars, late_vars>>

(***************************************************************************)
(* Experiment2: images matched to the rows of the data file by file name   *)
(***************************************************************************)
\* Path(p).name: what follows the last slash
path_name(p) ==
    LET slashes == {i \in 1..Len(p) : p[i] = "/"} IN
    IF slashes = {} THEN p
    ELSE Drop(p, CHOOSE i \in slashes : \A j \in slashes : j <= i)

\* Path(p).stem: the name without its suffix
path_stem(p) == Take(path_name(p), Len(path_name(p)) - Len(suffix(path_name(p))))

\* what _clean_caption of Experiment2 returns for a too short text
NotPossible ==
    <<"a", " ", "d", "e", "t", "a", "i", "l", "e", "d", " ", "o", "b", "j", "e", "c", "t", " ",
      "d", "e", "s", "c", "r", "i", "p", "t", "i", "o", "n", " ", "i", "s", " ", "n", "o", "t",
      " ", "p", "o", "s", "s", "i", "b", "l", "e">>

\* _clean_caption of Experiment2: the loop of the caption generator, another fallback
clean_caption_exp2(text) ==
    LET F[i \in 0..Len(UNWANTED_PHRASES)] ==
            IF i = 0 THEN [caption |-> strip(text), caption_lower |-> lower(strip(text))]
            ELSE clean_phrase(F[i - 1], UNWANTED_PHRASES[i])
        caption == rstrip(F[Len(UNWANTED_PHRASES)].caption, {".", ",", ";", "!", "?"})
    IN  IF caption # <<>> /\ Len(caption) >= MinCaptionLen THEN caption ELSE NotPossible

\* FALLBACK_CAPTIONS of Experiment2: the first three of the caption generator's
FallbackChoices == 3

\* _get_fallback_caption; choice is what random.choice draws
get_fallback_caption(choice) == <<UntitledObject, FALLBACK_CAPTIONS[choice]>>

\* _parse_response of Experiment2: the loop of the caption generator's parser
parse_response_exp2(text, tags, choice) ==
    LET st == parse_lines("caption", response_lines(text), tags) IN
    <<IF st.headline # <<>> THEN clean_caption_exp2(st.headline) ELSE UntitledObject,
      IF st.description # <<>> THEN clean_caption_exp2(st.description)
      ELSE FALLBACK_CAPTIONS[choice]>>

\* what generate_caption returns: None (exception caught, no text, blank
\* text) or the parsed text
CaptionResults ==
    {<<>>} \cup {parse_response_exp2(text, LANGUAGE_MAPPING[PipeLanguage], choice) :
                    text \in {t \in GenTexts : strip(t) # <<>>}, choice \in 1..FallbackChoices}

\* metadata = {k: str(row[v]).strip() for k, v in COLUMN_MAP.items()}
row_metadata(row) ==
    [Inventar_ID |-> strip(row.t1), Kuenstler_Hersteller |-> strip(row.T2),
     Abmessungen_Material |-> strip(row.T5), Datierung_Epoche |-> strip(row.T14),
     Bildpfade |-> strip(row.T13)]

\* excel_data_by_filename[name] = metadata
index_put(index, name, metadata) ==
    [k \in DOMAIN index \cup {name} |-> IF k = name THEN metadata ELSE index[k]]

\* the loop over the lines of the Bildpfade cell of one row
index_paths(index, metadata) ==
    LET ps == split(metadata.Bildpfade, "\n")
        F[i \in 0..Len(ps)] ==
            IF i = 0 THEN index
            ELSE LET p == strip(ps[i])
                     filename == lower(path_name(p))
                     filename_no_ext == lower(path_stem(p))
                     named == index_put(F[i - 1], filename, metadata)
                 IN  IF p = <<>> THEN F[i - 1]
                     ELSE IF filename_no_ext # filename
                     THEN index_put(named, filename_no_ext, metadata)
                     ELSE named
    IN  F[Len(ps)]

\* the loop over df.iterrows()
index_rows(rows) ==
    LET F[i \in 0..Len(rows)] ==
            IF i = 0 THEN <<>> ELSE index_paths(F[i - 1], row_metadata(rows[i]))
    IN  F[Len(rows)]

\* rows of the data file: ID, maker, dimensions, date and the image-path cell
X2Rows ==
    {[t1 |-> <<"1">>, T2 |-> <<"Maker">>, T5 |-> <<"10cm">>, T14 |-> <<"1934">>,
      T13 |->
        <<"a", ".", "j", "p", "g">>],
     [t1 |-> <<"2">>, T2 |-> <<>>, T5 |-> <<"20cm">>, T14 |-> <<"1950">>,
      T13 |->
        <<"p", "i", "c", "s", "/", "B", ".", "J", "P", "G", "\n", " ", "c", " ", "\n">>],
     [t1 |-> <<"3">>, T2 |-> <<"Maker">>, T5 |-> <<>>, T14 |-> <<>>,
      T13 |-> <<>>],
     [t1 |-> <<"4">>, T2 |-> <<"Maker">>, T5 |-> <<>>, T14 |-> <<"1900">>,
      T13 |->
        <<"z", ".", "j", "p", "g">>]}

\* names of the files of the image directory
X2FileNames ==
    {<<"a", ".", "j", "p", "g">>,
     <<"b", ".", "j", "p", "g">>,
     <<"C", ".", "P", "N", "G">>,
     <<"n", "o", "t", "e", "s", ".", "t", "x", "t">>}

\* Path(image_dir).glob('*'): the files in any order
X2Listings ==
    {q \in SeqsUpTo(X2FileNames, MaxFiles) : \A i, j \in 1..Len(q) : i # j => q[i] # q[j]}

\* image_files: the files with an image suffix, as paths, in glob order
image_files_of(files) ==
    LET F[i \in 0..Len(files)] ==
            IF i = 0 THEN <<>>
            ELSE IF lower(suffix(files[i])) \in ImageSuffixes
            THEN Append(F[i - 1], path_join(Directory, files[i]))
            ELSE F[i - 1]
    IN  F[Len(files)]

\* rate_limit_batch of Experiment2's ProcessingConfig
X2Batch == 3

MatchInit ==
    /\ x2_rows \in SeqsUpTo(X2Rows, MaxRows)
    /\ x2_images \in {image_files_of(q) : q \in X2Listings}
    /\ excel_data_by_filename = <<>> /\ matched_data = <<>>
    /\ matched_count = 0 /\ unmatched_count = 0 /\ x2_i = 0 /\ x2_output = <<>>
    /\ x2_pc = "load"

\* _load_and_match_data, first loop: the rows are indexed by file name
IndexRows ==
    /\ x2_pc = "load"
    /\ excel_data_by_filename' = index_rows(x2_rows)
    /\ x2_pc' = "match"
    /\ UNCHANGED <<x2_rows, x2_images, matched_data, matched_count, unmatched_count, x2_i,
                   x2_output, canon_vars, load_vars, parse_vars, pipe_vars, excel_vars,
                   clean_vars, merge_vars, late_vars>>

\* _load_and_match_data, second loop: one image is looked up by name, then by stem
MatchImage ==
    /\ x2_pc = "match" /\ x2_i < Len(x2_images)
    /\ LET image_path == x2_images[x2_i + 1]
           image_filename == lower(path_name(image_path))
           image_stem == lower(path_stem(image_path))
           found == {k \in {image_filename, image_stem} : k \in DOMAIN excel_data_by_filename}
           key == IF image_filename \in found THEN image_filename ELSE image_stem
       IN  IF found # {}
           THEN /\ matched_data' = Append(matched_data,
                                          <<excel_data_by_filename[key], image_path>>)
                /\ matched_count' = matched_count + 1
                /\ UNCHANGED unmatched_count
           ELSE /\ unmatched_count' = unmatched_count + 1
                /\ UNCHANGED <<matched_data, matched_count>>
    /\ x2_i' = x2_i + 1
    /\ UNCHANGED <<x2_rows, x2_images, excel_data_by_filename, x2_output, x2_pc,
                   canon_vars, load_vars, parse_vars, pipe_vars, excel_vars,
                   clean_vars, merge_vars, late_vars>>

\* process(): without matched items it returns (0, 0); otherwise the output
\* file is opened and its header written
BeginProcess ==
    /\ x2_pc = "match" /\ x2_i = Len(x2_images)
    /\ x2_pc' = IF matched_data = <<>> THEN "returned" ELSE "loop"
    /\ x2_i' = 0
    /\ UNCHANGED <<x2_rows, x2_images, excel_data_by_filename, matched_data, matched_count,
                   unmatched_count, x2_output, canon_vars, load_vars, parse_vars, pipe_vars,
                   excel_vars, clean_vars, merge_vars, late_vars>>

\* output_row: the metadata in COLUMN_MAP order, then headline and caption
output_row(metadata, pair) ==
    [Inventar_ID |-> metadata.Inventar_ID,
     Kuenstler_Hersteller |-> metadata.Kuenstler_Hersteller,
     Abmessungen_Material |-> metadata.Abmessungen_Material,
     Datierung_Epoche |-> metadata.Datierung_Epoche,
     Bildpfade |-> metadata.Bildpfade, headline |-> pair[1], caption |-> pair[2]]

\* one round of the loop of process(). raised: no exception, one raised in the
\* try block before the row is written, one raised in the pause after it;
\* x2_output is the list of rows in the file, so processed is its length
ProcessItem ==
    /\ x2_pc = "loop" /\ x2_i < Len(matched_data)
    /\ LET metadata == matched_data[x2_i + 1][1]
           processed == Len(x2_output)
       IN  \E result \in CaptionResults, choice \in 1..FallbackChoices,
              raised \in {"no", "before_write", "in_pause"} :
             LET pair == IF result = <<>> THEN get_fallback_caption(choice) ELSE result
                 row == output_row(metadata, pair)
                 fallback_row == output_row(metadata, get_fallback_caption(choice))
             IN  /\ raised = "in_pause" =>
                        (processed + 1) % X2Batch = 0 /\ processed + 1 < Len(matched_data)
                 /\ x2_output' = CASE raised = "no" -> Append(x2_output, row)
                                    [] raised = "before_write" -> Append(x2_output, fallback_row)
                                    [] raised = "in_pause" -> x2_output \o <<row, fallback_row>>
    /\ x2_i' = x2_i + 1
    /\ UNCHANGED <<x2_rows, x2_images, excel_data_by_filename, matched_data, matched_count,
                   unmatched_count, x2_pc, canon_vars, load_vars, parse_vars, pipe_vars,
                   excel_vars, clean_vars, merge_vars, late_vars>>

\* the loop is over: the with block closes the output file
CloseCaptions ==
    /\ x2_pc = "loop" /\ x2_i = Len(matched_data)
    /\ x2_pc' = "closed"
    /\ UNCHANGED <<x2_rows, x2_images, excel_data_by_filename, matched_data, matched_count,
                   unmatched_count, x2_i, x2_output, canon_vars, load_vars, parse_vars,
                   pipe_vars, excel_vars, clean_vars, merge_vars, late_vars>>

(***************************************************************************)
(* merge_deduplicate_excel.py, excelextract3.py: two files merged into one *)
(***************************************************************************)
\* the rows the input files hold together, at most
MaxMergeRows == 3

\* the columns of a proper input file
MergeColumns == {"t1", "T2", "T3"}

\* rows of an input file; <<>> is an empty cell, read as NaN
MergeRows ==
    {[t1 |-> t, T2 |-> a, T3 |-> b] :
        t \in {<<>>, <<"1">>, <<"2">>}, a \in {<<>>, <<"x">>}, b \in {<<>>, <<"y">>}}

\* an input file without the ID column
NoIdFrame == [columns |-> {"T2"}, rows |-> <<[T2 |-> <<"x">>]>>]

\* what pd.read_excel returns for a file of at most n rows
Frames(n) ==
    {[columns |-> MergeColumns, rows |-> r] : r \in SeqsUpTo(MergeRows, n)}
        \cup (IF n >= 1 THEN {NoIdFrame} ELSE {})

\* the rows of a list of frames
frames_rows(frames) ==
    LET F[i \in 0..Len(frames)] == IF i = 0 THEN 0 ELSE F[i - 1] + Len(frames[i].rows)
    IN  F[Len(frames)]

\* pd.concat(all_dataframes, ignore_index=True): the rows of the frames in
\* order, over the union of their columns, NaN where a frame lacks a column
concat(frames) ==
    LET columns == UNION {frames[i].columns : i \in 1..Len(frames)}
        widen(row) == [c \in columns |-> IF c \in DOMAIN row THEN row[c] ELSE <<>>]
        F[i \in 0..Len(frames)] ==
            IF i = 0 THEN <<>>
            ELSE F[i - 1] \o [k \in 1..Len(frames[i].rows) |-> widen(frames[i].rows[k])]
    IN  [columns |-> columns, rows |-> F[Len(frames)]]

\* dropna(subset=[id_column])
dropna(rows) == SelectSeq(rows, LAMBDA row : row.t1 # <<>>)

\* the value that column c has in the first row of the group of id
first_row_value(rows, id, c) ==
    rows[CHOOSE i \in 1..Len(rows) :
            rows[i].t1 = id /\ \A j \in 1..(i - 1) : rows[j].t1 # id][c]

\* agg('first') for one group and one column: the first non-NaN value of the
\* column among the rows of the group, NaN when there is none
agg_first(rows, id, c) ==
    LET filled == {i \in 1..Len(rows) : rows[i].t1 = id /\ rows[i][c] # <<>>} IN
    IF filled = {} THEN <<>>
    ELSE rows[CHOOSE i \in filled : \A j \in filled : i <= j][c]

\* the keys of groupby(id_column): the distinct IDs in ascending order
group_keys(rows) ==
    LET firsts == SelectSeq([i \in 1..Len(rows) |->
                                IF \E j \in 1..(i - 1) : rows[j].t1 = rows[i].t1
                                THEN <<>> ELSE rows[i].t1],
                            LAMBDA id : id # <<>>)
    IN  sorted(firsts)

\* combined_df.groupby(id_column, as_index=False).agg('first')
groupby_first(df) ==
    LET keys == group_keys(df.rows) IN
    [k \in 1..Len(keys) |->
        [c \in df.columns |-> IF c = "t1" THEN keys[k] ELSE agg_first(df.rows, keys[k], c)]]

MergeInit == all_dataframes = <<>> /\ cleaned_df = <<>> /\ merge_pc = "load1"

\* the loop over input_files: a file is read and appended, or it cannot be
\* read and is skipped
LoadFile ==
    /\ merge_pc \in {"load1", "load2"}
    /\ \/ \E df \in Frames(MaxMergeRows - frames_rows(all_dataframes)) :
            all_dataframes' = Append(all_dataframes, df)
       \/ UNCHANGED all_dataframes
    /\ merge_pc' = IF merge_pc = "load1" THEN "load2" ELSE "loaded"
    /\ UNCHANGED <<cleaned_df, canon_vars, load_vars, parse_vars, pipe_vars, excel_vars,
                   clean_vars, match_vars, late_vars>>

\* no file was loaded: the script terminates
NoData ==
    /\ merge_pc = "loaded" /\ all_dataframes = <<>>
    /\ merge_pc' = "terminated"
    /\ UNCHANGED <<all_dataframes, cleaned_df, canon_vars, load_vars, parse_vars, pipe_vars,
                   excel_vars, clean_vars, match_vars, late_vars>>

\* steps 2 to 4: concat, the test of the ID column, dropna, groupby, to_csv
Deduplicate ==
    /\ merge_pc = "loaded" /\ all_dataframes # <<>>
    /\ LET combined_df == concat(all_dataframes) IN
       IF "t1" \notin combined_df.columns
       THEN merge_pc' = "no_id_column" /\ UNCHANGED cleaned_df
       ELSE /\ cleaned_df' = groupby_first([combined_df EXCEPT !.rows = dropna(@)])
            /\ merge_pc' = "saved"
    /\ UNCHANGED <<all_dataframes, canon_vars, load_vars, parse_vars, pipe_vars, excel_vars,
                   clean_vars, match_vars, late_vars>>

(***************************************************************************)
(* The images of one group handed to the generation call                   *)
(***************************************************************************)
\* most images of one group
MaxGroup == 5

\* file names of one object group
GroupFileNames ==
    {<<"1", "-", "2", "-", "3", "-", "4", "-", "a", ".", "j", "p", "g">>,
     <<"1", "-", "2", "-", "3", "-", "4", "-", "B", ".", "j", "p", "g">>,
     <<"1", "-", "2", "-", "3", "-", "4", "-", "c", ".", "p", "n", "g">>,
     <<"1", "-", "2", "-", "3", "-", "4", "-", "1", "0", ".", "j", "p", "g">>,
     <<"1", "-", "2", "-", "3", "-", "4", "-", "9", ".", "j", "p", "g">>,
     <<"1", "-", "2", "-", "3", "-", "4", ".", "j", "p", "e", "g">>}

\* image_files of a group: distinct paths in the order os.listdir gave them
GroupFiles ==
    {[i \in 1..Len(q) |-> path_join(Directory, q[i])] :
        q \in {r \in SeqsUpTo(GroupFileNames, MaxGroup) :
                 \A i, j \in 1..Len(r) : i # j => r[i] # r[j]}}

SelInit == sel_files \in GroupFiles /\ sel_out = <<>> /\ sel_pc = "start"

\* files_to_process = sorted(image_files)[:4], then handed to the generator
SelectFiles ==
    /\ sel_pc = "start"
    /\ sel_out' = files_to_process(sel_files)
    /\ sel_pc' = "done"
    /\ UNCHANGED <<sel_files, sel_rest>>

(***************************************************************************)
(* Experiment1: one caption per image                                      *)
(***************************************************************************)
\* most image files of a run
MaxShots == 4

\* rate_limit_batch of Experiment1's ProcessingConfig
Exp1Batch == 3

\* the image files of the input folder, as _find_images returns them: sorted
ShotFiles ==
    <<path_join(Directory, <<"a", ".", "j", "p", "g">>),
      path_join(Directory, <<"b", ".", "j", "p", "g">>),
      path_join(Directory, <<"c", ".", "p", "n", "g">>),
      path_join(Directory, <<"d", ".", "j", "p", "e", "g">>),
      path_join(Directory, <<"e", ".", "j", "p", "g">>)>>

\* what generate_caption returns: None (the call raised, which the function
\* catches itself, or there was no text) or the parsed text
Exp1Results ==
    {<<>>, parse_response("caption", RoundTripText, LANGUAGE_MAPPING[PipeLanguage], 1)}

ImagesInit ==
    /\ i1_files \in {Take(ShotFiles, n) : n \in 0..Min(MaxShots, Len(ShotFiles))}
    /\ i1_idx = 0 /\ i1_processed = 0 /\ i1_successful = 0
    /\ i1_rows = <<>> /\ i1_steps = <<>> /\ i1_pc = "loop"

\* one round of the loop of _process_images. raised: no exception, one raised
\* in the try block before the row is written, one raised in the pause after
\* it; slept: no pause, the rate-limit pause, the 2 s of the except branch
ProcessImage ==
    /\ i1_pc = "loop" /\ i1_idx < Len(i1_files)
    /\ LET file_name == path_name(i1_files[i1_idx + 1])
           due == (i1_processed + 1) % Exp1Batch = 0 /\ i1_processed + 1 < Len(i1_files)
       IN  \E result \in Exp1Results, choice \in 1..Len(FALLBACK_CAPTIONS),
              raised \in {"no", "before_write", "in_pause"} :
             LET fallback == <<UntitledScene, FALLBACK_CAPTIONS[choice]>>
                 pair == IF result = <<>> THEN fallback ELSE result
                 row == [headline |-> pair[1], caption |-> pair[2], image_file |-> file_name]
                 fallback_row == [headline |-> fallback[1], caption |-> fallback[2],
                                  image_file |-> file_name]
             IN  /\ raised = "in_pause" => due
                 /\ i1_successful' = IF result = <<>> THEN i1_successful ELSE i1_successful + 1
                 /\ i1_rows' = CASE raised = "no" -> Append(i1_rows, row)
                                 [] raised = "before_write" -> Append(i1_rows, fallback_row)
                                 [] raised = "in_pause" -> i1_rows \o <<row, fallback_row>>
                 /\ i1_processed' = IF raised = "in_pause" THEN i1_processed + 2
                                     ELSE i1_processed + 1
                 /\ i1_steps' = Append(i1_steps,
                        [failed |-> result = <<>>, raised |-> raised,
                         slept |-> IF raised # "no" THEN "error"
                                   ELSE IF due THEN "batch" ELSE "none"])
    /\ i1_idx' = i1_idx + 1
    /\ UNCHANGED <<i1_files, i1_pc, image_rest>>

\* the loop is over: return processed, successful
ReturnCounts ==
    /\ i1_pc = "loop" /\ i1_idx = Len(i1_files)
    /\ i1_pc' = "returned"
    /\ UNCHANGED <<i1_files, i1_idx, i1_processed, i1_successful, i1_rows, i1_steps, image_rest>>

(***************************************************************************)
(* The labels of the prompt and the labels of the parser                   *)
(***************************************************************************)
\* the labels written into CAPTION_PROMPT_TEMPLATE of Experiment2: the
\* template has no {headline_tag} or {description_tag} field
Exp2TemplateTags ==
    <<<<"H", "E", "A", "D", "L", "I", "N", "E">>,
      <<"D", "E", "S", "C", "R", "I", "P", "T", "I", "O", "N">>>>

\* languages a run may be configured with; the last is in no table of the model
PromptLanguages == {"Deutsch", "English", "Suomi"}

\* LANGUAGE_MAPPING.get(language, LANGUAGE_MAPPING["English"])
mapping_get(language) ==
    IF language \in DOMAIN LANGUAGE_MAPPING THEN LANGUAGE_MAPPING[language]
    ELSE LANGUAGE_MAPPING["English"]

\* headlines and descriptions of a response
ReplyHeadlines ==
    {<<>>, <<"L", "a", "m", "p">>, <<"B", "r", "a", "s", "s", " ", "l", "a", "m", "p">>}

ReplyDescriptions ==
    {<<>>, <<"B", "a", "r", " ", "b", "a", "z", ".">>,
     <<"A", " ", "b", "r", "a", "s", "s", " ", "l", "a", "m", "p", " ", "o", "f", " ", "t",
       "h", "e", " ", "1", "9", "3", "0", "s", ".">>}

\* a response that follows the format the prompt asks for
reply_text(tags, headline, description) ==
    tags[1] \o <<":", " ">> \o headline \o <<"\n">> \o tags[2] \o <<":", " ">> \o description

PromptInit ==
    /\ pr_script \in {"exp2", "exp31"}
    /\ pr_language \in PromptLanguages
    /\ pr_prompt_tags = <<>> /\ pr_parser_tags = <<>> /\ pr_text = <<>> /\ pr_result = <<>>
    /\ pr_pc = "start"

\* generate_caption of Experiment2 up to the prompt: the labels are looked up
\* (KeyError for an unknown language, caught: None is returned) and handed to
\* format(), which finds no field for them in the template
FormatPromptExp2 ==
    /\ pr_pc = "start" /\ pr_script = "exp2"
    /\ IF pr_language \in DOMAIN LANGUAGE_MAPPING
       THEN /\ pr_parser_tags' = LANGUAGE_MAPPING[pr_language]
            /\ pr_prompt_tags' = Exp2TemplateTags
            /\ pr_pc' = "prompted"
       ELSE /\ pr_pc' = "done"
            /\ UNCHANGED <<pr_parser_tags, pr_prompt_tags>>
    /\ UNCHANGED <<pr_script, pr_language, pr_text, pr_result, prompt_rest>>

\* generate_object_description of Experiment3.1 up to the prompt: the labels
\* looked up fill the fields of the template
FormatPromptExp31 ==
    /\ pr_pc = "start" /\ pr_script = "exp31"
    /\ pr_parser_tags' = mapping_get(pr_language)
    /\ pr_prompt_tags' = mapping_get(pr_language)
    /\ pr_pc' = "prompted"
    /\ UNCHANGED <<pr_script, pr_language, pr_text, pr_result, prompt_rest>>

\* generate_content: the model answers in the format the prompt asked for
Respond ==
    /\ pr_pc = "prompted"
    /\ \E headline \in ReplyHeadlines, description \in ReplyDescriptions :
          pr_text' = reply_text(pr_prompt_tags, headline, description)
    /\ pr_pc' = "answered"
    /\ UNCHANGED <<pr_script, pr_language, pr_prompt_tags, pr_parser_tags, pr_result, prompt_rest>>

\* the response is parsed with the labels looked up before the call
ParseReply ==
    /\ pr_pc = "answered"
    /\ \E choice \in 1..FallbackChoices :
          pr_result' = IF pr_script = "exp2"
                       THEN parse_response_exp2(pr_text, pr_parser_tags, choice)
                       ELSE parse_response("exp31", pr_text, pr_parser_tags, choice)
    /\ pr_pc' = "done"
    /\ UNCHANGED <<pr_script, pr_language, pr_prompt_tags, pr_parser_tags, pr_text, prompt_rest>>

(***************************************************************************)
(* The GUI: the start button, the worker thread and the log queue          *)
(***************************************************************************)
\* most clicks on the start button
MaxClicks == 2

\* the ways through the try block of run_processing_logic: the messages it
\* puts and how it is left (return, normal end, exception)
WorkerPaths ==
    {[msgs |-> <<"Step 1", "ERROR processing CSV">>, end |-> "return"],
     [msgs |-> <<"Step 1", "CSV loaded", "Step 2", "Found groups", "Step 3">>, end |-> "raise"],
     [msgs |-> <<"Step 1", "CSV loaded", "Step 2", "Found groups", "Step 3",
                 "Processing ID">>, end |-> "raise"],
     [msgs |-> <<"Step 1", "CSV loaded", "Step 2", "Found groups", "Step 3",
                 "Processing ID", "Headline", "Processing finished">>, end |-> "normal"]}

\* a message of run r; the run is not part of the text, it tells apart the
\* messages of different runs
Message(r, text) == [run |-> r, text |-> text]

GuiInit ==
    /\ start_button = "normal" /\ log_queue = <<>> /\ log_textbox = <<>> /\ threads = <<>>
    /\ put_log = <<>> /\ shown_log = <<>> /\ clicks = 0 /\ gui_pc = "idle"

\* start_processing with an invalid folder or CSV path, or a cancelled save
\* dialog: a message is logged directly and nothing is started
StartRejected ==
    /\ gui_pc = "idle" /\ start_button = "normal" /\ clicks < MaxClicks
    /\ clicks' = clicks + 1
    /\ log_textbox' = Append(log_textbox, Message(0, "Please provide a valid input"))
    /\ UNCHANGED <<start_button, log_queue, threads, put_log, shown_log, gui_pc, gui_rest>>

\* a plausible slip: the worker is started and the button stays enabled
StartProcessingEnabled ==
    /\ gui_pc = "idle" /\ start_button = "normal" /\ clicks < MaxClicks
    /\ clicks' = clicks + 1
    /\ log_textbox' = <<>>
    /\ \E path \in WorkerPaths :
          threads' = Append(threads, [todo |-> path.msgs, end |-> path.end, pc |-> "try"])
    /\ UNCHANGED <<start_button, log_queue, put_log, shown_log, gui_pc, gui_rest>>

\* start_processing with valid inputs: the log is cleared, the button
\* disabled and the worker thread started
StartProcessing ==
    /\ gui_pc = "idle" /\ start_button = "normal" /\ clicks < MaxClicks
    /\ clicks' = clicks + 1
    /\ log_textbox' = <<>>
    /\ start_button' = "disabled"
    /\ \E path \in WorkerPaths :
          threads' = Append(threads, [todo |-> path.msgs, end |-> path.end, pc |-> "try"])
    /\ UNCHANGED <<log_queue, put_log, shown_log, gui_pc, gui_rest>>

\* log_queue.put(text) by worker r
put(r, text) ==
    /\ log_queue' = Append(log_queue, Message(r, text))
    /\ put_log' = Append(put_log, Message(r, text))

\* worker r inside the try block: the next message is put; after the last
\* one the block is left as the path says
WorkerTry(r) ==
    /\ threads[r].pc = "try"
    /\ IF threads[r].todo # <<>>
       THEN /\ put(r, Head(threads[r].todo))
            /\ threads' = [threads EXCEPT ![r].todo = Tail(@)]
       ELSE /\ threads' = [threads EXCEPT
                              ![r].pc = IF threads[r].end = "raise" THEN "except" ELSE "finally"]
            /\ UNCHANGED <<log_queue, put_log>>
    /\ UNCHANGED <<start_button, log_textbox, shown_log, clicks, gui_pc, gui_rest>>

\* except Exception: the error is reported
WorkerExcept(r) ==
    /\ threads[r].pc = "except"
    /\ put(r, "A CRITICAL ERROR OCCURRED")
    /\ threads' = [threads EXCEPT ![r].pc = "finally"]
    /\ UNCHANGED <<start_button, log_textbox, shown_log, clicks, gui_pc, gui_rest>>

\* a plausible slip: FINISHED is put at the end of the try block only, so not
\* after an exception
WorkerFinallySkipped(r) ==
    /\ threads[r].pc = "finally"
    /\ IF threads[r].end = "raise" THEN UNCHANGED <<log_queue, put_log>>
       ELSE put(r, "FINISHED")
    /\ threads' = [threads EXCEPT ![r].pc = "returned"]
    /\ UNCHANGED <<start_button, log_textbox, shown_log, clicks, gui_pc, gui_rest>>

\* finally: FINISHED is put, the last statement of run_processing_logic
WorkerFinally(r) ==
    /\ threads[r].pc = "finally"
    /\ put(r, "FINISHED")
    /\ threads' = [threads EXCEPT ![r].pc = "returned"]
    /\ UNCHANGED <<start_button, log_textbox, shown_log, clicks, gui_pc, gui_rest>>

\* one statement of a worker thread
WorkerStep == \E r \in 1..Len(threads) : WorkerTry(r) \/ WorkerExcept(r) \/ WorkerFinally(r)

\* update_log_widget is called by the timer
UpdateBegin ==
    /\ gui_pc = "idle"
    /\ gui_pc' = "draining"
    /\ UNCHANGED <<start_button, log_queue, log_textbox, threads, put_log, shown_log, clicks,
                   gui_rest>>

\* a plausible slip: the newest message is taken first
UpdateGetNewest ==
    /\ gui_pc = "draining" /\ log_queue # <<>>
    /\ LET message == log_queue[Len(log_queue)] IN
       /\ log_queue' = SubSeq(log_queue, 1, Len(log_queue) - 1)
       /\ IF message.text = "FINISHED"
          THEN start_button' = "normal" /\ UNCHANGED <<log_textbox, shown_log>>
          ELSE /\ log_textbox' = Append(log_textbox, message)
               /\ shown_log' = Append(shown_log, message)
               /\ UNCHANGED start_button
    /\ UNCHANGED <<threads, put_log, clicks, gui_pc, gui_rest>>

\* one round of the while loop of update_log_widget: get_nowait(), then
\* FINISHED enables the button and any other message is logged
UpdateGet ==
    /\ gui_pc = "draining" /\ log_queue # <<>>
    /\ LET message == Head(log_queue) IN
       /\ log_queue' = Tail(log_queue)
       /\ IF message.text = "FINISHED"
          THEN start_button' = "normal" /\ UNCHANGED <<log_textbox, shown_log>>
          ELSE /\ log_textbox' = Append(log_textbox, message)
               /\ shown_log' = Append(shown_log, message)
               /\ UNCHANGED start_button
    /\ UNCHANGED <<threads, put_log, clicks, gui_pc, gui_rest>>

\* the queue is empty: the next call is scheduled with after(100, ...)
UpdateEnd ==
    /\ gui_pc = "draining" /\ log_queue = <<>>
    /\ gui_pc' = "idle"
    /\ UNCHANGED <<start_button, log_queue, log_textbox, threads, put_log, shown_log, clicks,
                   gui_rest>>

\* the timer's part of the GUI thread
UpdateLogWidget == UpdateBegin \/ UpdateGet \/ UpdateEnd

(***************************************************************************)
(* generate_catalog_text: the request and its retries                      *)
(***************************************************************************)
\* for attempt in range(3)
MaxAttempts == 3

MaxCatalogImages == 2

\* an image file can be opened and read, or open() raises
CatalogImages == UNION {[1..n -> {"readable", "unreadable"}] : n \in 1..MaxCatalogImages}

\* what requests.post and the two calls on its response can give:
\*   "content"         status 200, the body holds choices[0].message.content
\*   "no_choices"      status 200, the body is JSON without that content
\*   "not_json"        status 200, the body is not JSON (resp.json() raises a
\*                     RequestException that carries no response)
\*   "http_error"      raise_for_status() raises with the response
\*   "no_response"     requests.post raises without a response (connection)
Responses ==
    {[kind |-> "content", status |-> 200, rate_limit_text |-> FALSE, text |-> t] :
         t \in CatalogTexts}
    \cup {[kind |-> k, status |-> 200, rate_limit_text |-> FALSE, text |-> <<>>] :
         k \in {"no_choices", "not_json"}}
    \cup {[kind |-> "http_error", status |-> st, rate_limit_text |-> b, text |-> <<>>] :
         st \in {400, 429, 500}, b \in BOOLEAN}
    \cup {[kind |-> "no_response", status |-> 0, rate_limit_text |-> FALSE, text |-> <<>>]}

\* the except clause's test: the exception carries a response, and
\* "rate_limit_exceeded" in txt or e.response.status_code == 429
rate_limited(resp) ==
    resp.kind = "http_error" /\ (resp.rate_limit_text \/ resp.status = 429)

\* wait = 10 * (attempt + 1)
wait_of(attempt) == 10 * (attempt + 1)

RetryInit ==
    /\ rt_images \in CatalogImages
    /\ rt_encoded = 0 /\ rt_attempt = 0 /\ rt_requests = <<>> /\ rt_sleeps = <<>>
    /\ rt_result = <<>> /\ rt_pc = "encode"

\* one round of "for p in image_paths", which is outside the try: an error
\* of open() leaves the function
EncodeImage ==
    /\ rt_pc = "encode" /\ rt_encoded < Len(rt_images)
    /\ IF rt_images[rt_encoded + 1] = "unreadable"
       THEN rt_pc' = "raised" /\ UNCHANGED rt_encoded
       ELSE /\ rt_encoded' = rt_encoded + 1
            /\ rt_pc' = IF rt_encoded + 1 = Len(rt_images) THEN "request" ELSE "encode"
    /\ UNCHANGED <<rt_images, rt_attempt, rt_requests, rt_sleeps, rt_result, retry_rest>>

\* one round of "for attempt in range(3)": the request, and what the try and
\* its except clause make of the outcome
Request ==
    /\ rt_pc = "request" /\ rt_attempt < MaxAttempts
    /\ \E resp \in Responses :
        /\ rt_requests' = Append(rt_requests, resp)
        /\ CASE resp.kind = "content" ->
                  /\ rt_result' = [kind |-> "content", text |-> resp.text]
                  /\ rt_pc' = "returned"
                  /\ UNCHANGED <<rt_attempt, rt_sleeps>>
             [] resp.kind = "no_choices" ->
                  \* KeyError, IndexError or TypeError: not a RequestException
                  /\ rt_pc' = "raised"
                  /\ UNCHANGED <<rt_attempt, rt_sleeps, rt_result>>
             [] rate_limited(resp) ->
                  /\ rt_sleeps' = Append(rt_sleeps, wait_of(rt_attempt))
                  /\ rt_attempt' = rt_attempt + 1
                  /\ UNCHANGED <<rt_result, rt_pc>>
             [] OTHER ->
                  /\ rt_result' = [kind |-> "api_error", text |-> <<>>]
                  /\ rt_pc' = "returned"
                  /\ UNCHANGED <<rt_attempt, rt_sleeps>>
    /\ UNCHANGED <<rt_images, rt_encoded, retry_rest>>

\* the loop is over: return "Failed after retries."
ReturnFailed ==
    /\ rt_pc = "request" /\ rt_attempt = MaxAttempts
    /\ rt_result' = [kind |-> "failed_after_retries", text |-> <<>>]
    /\ rt_pc' = "returned"
    /\ UNCHANGED <<rt_images, rt_encoded, rt_attempt, rt_requests, rt_sleeps, retry_rest>>

(***************************************************************************)
(* copy_images_by_id: the images of the objects listed in the CSV          *)
(***************************************************************************)
MaxCopyRows == 2

MaxListing == 2

\* parts[:3]
IdentifierSegments == 3

\* os.path.basename(p)
basename(p) ==
    LET slashes == {i \in 1..Len(p) : p[i] = "/"} IN
    IF slashes = {} THEN p
    ELSE Drop(p, CHOOSE i \in slashes : \A j \in slashes : j <= i)

\* the identifier of one path of a T13 cell, <<>> where file_name is empty
identifier_of(path_entry) ==
    LET corrected_path == replace(strip(path_entry), "\\", "/")
        file_name == basename(corrected_path)
    IN  IF file_name = <<>> THEN <<>>
        ELSE lower(join(Take(split(file_name, "-"), IdentifierSegments), "-"))

\* the identifiers of one cell: one per line of the cell
cell_identifiers(entry) ==
    LET paths == split(entry, "\n") IN
    {identifier_of(paths[i]) : i \in 1..Len(paths)} \ {<<>>}

\* Step 1: the set of identifiers of the non-missing cells of column T13
extract_identifiers(cells) ==
    UNION {cell_identifiers(cells[i]) : i \in {j \in 1..Len(cells) : cells[j] # <<>>}}

\* cells of column T13; <<>> is a missing cell
T13Cells ==
    {<<>>,
     <<"1", "-", "2", "-", "3", "-", "a", ".", "j", "p", "g">>,
     <<"C", ":", "\\", "i", "m", "g", "\\", "1", "-", "2", "-", "4", "-", "b", ".", "J", "P",
      "G">>,
     <<" ", "1", "-", "2", "-", "3", "-", "a", ".", "j", "p", "g", "\n", "x", "/", "9", "-",
      "8", "-", "7", "-", "c", ".", "p", "n", "g">>,
     <<"d", "i", "r", "/">>}

\* entries of a source folder: a name, and whether it is a file
CopyEntries ==
    {[name |-> n, isfile |-> TRUE] :
         n \in {<<"1", "-", "2", "-", "3", "-", "a", ".", "j", "p", "g">>,
                <<"1", "-", "2", "-", "3", "0", "-", "a", ".", "j", "p", "g">>,
                <<"1", "-", "2", "-", "4", "-", "B", ".", "j", "p", "g">>,
                <<"5", "-", "5", "-", "5", "-", "a", ".", "j", "p", "g">>}}
    \cup {[name |-> <<"1", "-", "2", "-", "3", "-", "a", ".", "j", "p", "g">>, isfile |-> FALSE]}

\* os.listdir: distinct names, in any order
CopyListings ==
    {q \in SeqsUpTo(CopyEntries, MaxListing) :
         \A i, j \in 1..Len(q) : i # j => q[i].name # q[j].name}

CopyInit ==
    /\ cp_csv \in SeqsUpTo(T13Cells, MaxCopyRows)
    /\ cp_listings \in CopyListings \X CopyListings
    /\ object_identifiers = {} /\ cp_folder = 0 /\ cp_idx = 0 /\ copied_files = {}
    /\ found_images_counter = 0 /\ cp_copies = <<>> /\ cp_pc = "extract"

\* Step 1
ExtractIdentifiers ==
    /\ cp_pc = "extract"
    /\ object_identifiers' = extract_identifiers(cp_csv)
    /\ cp_folder' = 1 /\ cp_idx' = 0
    /\ cp_pc' = "copy"
    /\ UNCHANGED <<cp_csv, cp_listings, copied_files, found_images_counter, cp_copies,
                   copy_rest>>

\* Step 2, one file_name of os.listdir(source_folder): the loop over the
\* identifiers copies it where the lower-cased name starts with one of them,
\* the name is not in copied_files and the entry is a file
CopyFile ==
    /\ cp_pc = "copy" /\ cp_idx < Len(cp_listings[cp_folder])
    /\ LET entry == cp_listings[cp_folder][cp_idx + 1]
           file_name_lower == lower(entry.name)
       IN  IF /\ \E identifier \in object_identifiers :
                     startswith(file_name_lower, identifier)
              /\ entry.name \notin copied_files
              /\ entry.isfile
           THEN /\ cp_copies' = Append(cp_copies, [folder |-> cp_folder, name |-> entry.name])
                /\ found_images_counter' = found_images_counter + 1
                /\ copied_files' = copied_files \cup {entry.name}
           ELSE UNCHANGED <<cp_copies, found_images_counter, copied_files>>
    /\ cp_idx' = cp_idx + 1
    /\ UNCHANGED <<cp_csv, cp_listings, object_identifiers, cp_folder, cp_pc, copy_rest>>

\* the listing of one source folder is over: the next folder, or Step 3
NextFolder ==
    /\ cp_pc = "copy" /\ cp_idx = Len(cp_listings[cp_folder])
    /\ IF cp_folder = 1
       THEN cp_folder' = 2 /\ cp_idx' = 0 /\ UNCHANGED cp_pc
       ELSE cp_pc' = "done" /\ UNCHANGED <<cp_folder, cp_idx>>
    /\ UNCHANGED <<cp_csv, cp_listings, object_identifiers, copied_files,
                   found_images_counter, cp_copies, copy_rest>>

(***************************************************************************)
(* The other scripts at rest                                               *)
(***************************************************************************)
CleanIdle ==
    /\ c_text = <<>> /\ c_caption = <<>> /\ c_k = 0 /\ c_result = <<>> /\ c_pc = "idle"

MatchIdle ==
    /\ x2_rows = <<>> /\ x2_images = <<>> /\ excel_data_by_filename = <<>>
    /\ matched_data = <<>> /\ matched_count = 0 /\ unmatched_count = 0
    /\ x2_i = 0 /\ x2_output = <<>> /\ x2_pc = "idle"

MergeIdle == all_dataframes = <<>> /\ cleaned_df = <<>> /\ merge_pc = "idle"

SelIdle == sel_files = <<>> /\ sel_out = <<>> /\ sel_pc = "idle"

EarlyIdle == CanonIdle /\ LoadIdle /\ ParseIdle /\ PipeIdle /\ ExcelIdle /\ CleanIdle
    /\ MatchIdle /\ MergeIdle

ImagesIdle ==
    /\ i1_files = <<>> /\ i1_idx = 0 /\ i1_processed = 0 /\ i1_successful = 0
    /\ i1_rows = <<>> /\ i1_steps = <<>> /\ i1_pc = "idle"

PromptIdle ==
    /\ pr_script = "none" /\ pr_language = "none" /\ pr_prompt_tags = <<>>
    /\ pr_parser_tags = <<>> /\ pr_text = <<>> /\ pr_result = <<>> /\ pr_pc = "idle"

GuiIdle ==
    /\ start_button = "none" /\ log_queue = <<>> /\ log_textbox = <<>> /\ threads = <<>>
    /\ put_log = <<>> /\ shown_log = <<>> /\ clicks = 0 /\ gui_pc = "none"

RetryIdle ==
    /\ rt_images = <<>> /\ rt_encoded = 0 /\ rt_attempt = 0 /\ rt_requests = <<>>
    /\ rt_sleeps = <<>> /\ rt_result = <<>> /\ rt_pc = "idle"

CopyIdle ==
    /\ cp_csv = <<>> /\ cp_listings = <<>> /\ object_identifiers = {} /\ cp_folder = 0
    /\ cp_idx = 0 /\ copied_files = {} /\ found_images_counter = 0 /\ cp_copies = <<>>
    /\ cp_pc = "idle"

LateIdle == SelIdle /\ ImagesIdle /\ PromptIdle /\ GuiIdle /\ RetryIdle /\ CopyIdle

SelOthersIdle == EarlyIdle /\ ImagesIdle /\ PromptIdle /\ GuiIdle /\ RetryIdle /\ CopyIdle

ImagesOthersIdle == EarlyIdle /\ SelIdle /\ PromptIdle /\ GuiIdle /\ RetryIdle /\ CopyIdle

PromptOthersIdle == EarlyIdle /\ SelIdle /\ ImagesIdle /\ GuiIdle /\ RetryIdle /\ CopyIdle

GuiOthersIdle == EarlyIdle /\ SelIdle /\ ImagesIdle /\ PromptIdle /\ RetryIdle /\ CopyIdle

RetryOthersIdle == EarlyIdle /\ SelIdle /\ ImagesIdle /\ PromptIdle /\ GuiIdle /\ CopyIdle

CopyOthersIdle == EarlyIdle /\ SelIdle /\ ImagesIdle /\ PromptIdle /\ GuiIdle /\ RetryIdle

(***************************************************************************)
(* Specifications                                                          *)
(***************************************************************************)
InitCanon == CanonInit /\ LoadIdle /\ ParseIdle /\ PipeIdle /\ ExcelIdle
    /\ CleanIdle /\ MatchIdle /\ MergeIdle /\ LateIdle

NextCanon == Canonicalize \/ Recanonicalize

SpecCanon == InitCanon /\ [][NextCanon]_vars

InitLookup == LoadInit /\ CanonIdle /\ ParseIdle /\ PipeIdle /\ ExcelIdle
    /\ CleanIdle /\ MatchIdle /\ MergeIdle /\ LateIdle

SpecLookup == InitLookup /\ [][LoadAndPrepareData]_vars

InitParse == ParseInit /\ CanonIdle /\ LoadIdle /\ PipeIdle /\ ExcelIdle
    /\ CleanIdle /\ MatchIdle /\ MergeIdle /\ LateIdle

NextParse == ParseBegin \/ ParseLine \/ ParseReturn

SpecParse == InitParse /\ [][NextParse]_vars

InitPipe == PipeInit /\ CanonIdle /\ ParseIdle /\ ExcelIdle
    /\ CleanIdle /\ MatchIdle /\ MergeIdle /\ LateIdle

SpecPipe == InitPipe /\ [][PipeNext]_vars

InitExcel == ExcelInit /\ CanonIdle /\ LoadIdle /\ ParseIdle /\ PipeIdle
    /\ CleanIdle /\ MatchIdle /\ MergeIdle /\ LateIdle

NextExcel == ProcessExcelObject \/ SaveExcel

SpecExcel == InitExcel /\ [][NextExcel]_vars

InitClean == CleanInit /\ CanonIdle /\ LoadIdle /\ ParseIdle /\ PipeIdle /\ ExcelIdle
    /\ MatchIdle /\ MergeIdle /\ LateIdle

NextClean == CleanBegin \/ CleanPhrase \/ CleanReturn

SpecClean == InitClean /\ [][NextClean]_vars

InitMatch == MatchInit /\ CanonIdle /\ LoadIdle /\ ParseIdle /\ PipeIdle /\ ExcelIdle
    /\ CleanIdle /\ MergeIdle /\ LateIdle

NextMatch == IndexRows \/ MatchImage \/ BeginProcess \/ ProcessItem \/ CloseCaptions

SpecMatch == InitMatch /\ [][NextMatch]_vars

InitMerge == MergeInit /\ CanonIdle /\ LoadIdle /\ ParseIdle /\ PipeIdle /\ ExcelIdle
    /\ CleanIdle /\ MatchIdle /\ LateIdle

NextMerge == LoadFile \/ NoData \/ Deduplicate

SpecMerge == InitMerge /\ [][NextMerge]_vars

InitSelect == SelInit /\ SelOthersIdle

SpecSelect == InitSelect /\ [][SelectFiles]_vars

InitImages == ImagesInit /\ ImagesOthersIdle

NextImages == ProcessImage \/ ReturnCounts

SpecImages == InitImages /\ [][NextImages]_vars

InitPrompt == PromptInit /\ PromptOthersIdle

NextPrompt == FormatPromptExp2 \/ FormatPromptExp31 \/ Respond \/ ParseReply

SpecPrompt == InitPrompt /\ [][NextPrompt]_vars

InitGui == GuiInit /\ GuiOthersIdle

NextGui == StartRejected \/ StartProcessing \/ WorkerStep \/ UpdateLogWidget

SpecGui == InitGui /\ [][NextGui]_vars

\* the timer calls update_log_widget again and again, and a started thread
\* goes on running
SpecGuiFair == SpecGui /\ WF_vars(WorkerStep) /\ WF_vars(UpdateLogWidget)

InitRetry == RetryInit /\ RetryOthersIdle

NextRetry == EncodeImage \/ Request \/ ReturnFailed

SpecRetry == InitRetry /\ [][NextRetry]_vars

InitCopy == CopyInit /\ CopyOthersIdle

NextCopy == ExtractIdentifiers \/ CopyFile \/ NextFolder

SpecCopy == InitCopy /\ [][NextCopy]_vars

(***************************************************************************)
(* Claims                                                                  *)
(***************************************************************************)
\* the data rows of the output file written for the object ID id
RowsFor(id) == {k \in 1..Len(output) : output[k].object_id = id}

\* C1: when the per-object loop is over and the output file closed, the file
\* holds exactly one data row for every object group, whatever each
\* generation call gave (parsed text, None, an exception in the loop body)
C1_OneRowPerGroup ==
    (pipe_pc = "closed" /\ script \in {"enriched", "exp31"}) =>
        \A g \in 1..Len(object_groups) :
            Cardinality(RowsFor(object_groups[g].object_id)) = 1

\* C4: every row a pipeline writes has a non-empty title cell and a non-empty
\* description cell, also when generation failed or no label was recognised
C4_NoEmptyCells ==
    \A r \in 1..Len(results_rows) : \A n \in 1..Len(xl_languages) :
        /\ results_rows[r].cells[n][KNOWN_LABELS[1]] # <<>>
        /\ results_rows[r].cells[n][DescriptionLabel] # <<>>

\* the file name without its suffix (Path.stem)
Stem(filename) == Take(filename, Len(filename) - Len(suffix(filename)))

\* the files of the listing that the grouping loop takes for images
IsImage(filename) == lower(suffix(filename)) \in ImageSuffixes

\* the groups that hold the path of a file
GroupsHolding(filename) ==
    {g \in 1..Len(object_groups) :
        \E k \in 1..Len(object_groups[g].image_files) :
            object_groups[g].image_files[k] = path_join(Directory, filename)}

Grouped == pipe_pc \in {"loop", "closed"} /\ script \in {"enriched", "exp31"}

\* C5: every image file name with at least four hyphen-separated segments is
\* in exactly one group, whose key is the first four segments of the file
\* name's stem (extension excluded) joined by '-'
C5_GroupKeyFromStem ==
    Grouped =>
        \A f \in 1..Len(listing) :
            (IsImage(listing[f]) /\ Len(split(listing[f], "-")) >= 4) =>
                /\ Cardinality(GroupsHolding(listing[f])) = 1
                /\ \A g \in GroupsHolding(listing[f]) :
                      object_groups[g].object_id
                          = join(SubSeq(split(Stem(listing[f]), "-"), 1, 4), "-")

\* C6: an image file whose name has fewer than four hyphen-separated segments
\* is in no group, and no output row is written for it
C6_ShortNamesSkipped ==
    Grouped =>
        \A f \in 1..Len(listing) :
            (IsImage(listing[f]) /\ Len(split(listing[f], "-")) < 4) =>
                /\ GroupsHolding(listing[f]) = {}
                /\ RowsFor(listing[f]) = {}

\* the number of hyphens in s
Hyphens(s) == Cardinality({i \in 1..Len(s) : s[i] = "-"})

\* k is the first n hyphen-separated segments of id joined by '-': a prefix
\* of id that ends before the n-th hyphen of id, or all of id when id has
\* fewer than n hyphens
IsFirstSegments(k, id, n) ==
    /\ startswith(id, k)
    /\ \/ k = id /\ Hyphens(id) < n
       \/ Len(k) < Len(id) /\ id[Len(k) + 1] = "-" /\ Hyphens(k) = n - 1

\* C7: for every group key the key used to look up the metadata is the first
\* three hyphen-separated segments of the group key joined by '-'
C7_LookupKeyIsThreeSegments ==
    script \in {"enriched", "gui"} =>
        \A c \in 1..Len(calls) : IsFirstSegments(calls[c].lookup_key, calls[c].object_id, 3)

\* C7 witness: the group 1-2-3-4 was looked up under 1-2-3 and its row found
C7_Witness ==
    /\ script = "enriched"
    /\ \E c \in 1..Len(calls) :
          /\ calls[c].object_id = <<"1", "-", "2", "-", "3", "-", "4">>
          /\ calls[c].lookup_key = <<"1", "-", "2", "-", "3">>
          /\ "material" \in DOMAIN calls[c].object_data
          /\ calls[c].object_data.material = <<"Brass">>

\* the fixed strings a parser substitutes for a missing or too short description
FallbackDescriptions ==
    {DescriptionNotAvailable, CleanFallback, DetailedObjectDescription}
        \cup {FALLBACK_CAPTIONS[i] : i \in 1..Len(FALLBACK_CAPTIONS)}

\* C2: for every input text _parse_response runs to its return statement (in
\* the loop either a next line or the return is at hand) and returns a pair of
\* non-empty strings; a description substituted as a fallback has at least 10
\* characters
C2_ParserNeverEmpty ==
    /\ p_pc = "lines" => p_i \in 1..(Len(p_lines) + 1)
    /\ p_pc = "done" =>
          /\ Len(p_result) = 2
          /\ p_result[1] # <<>>
          /\ p_result[2] # <<>>
          /\ p_result[2] \in FallbackDescriptions => Len(p_result[2]) >= 10

\* C2 witness: the empty text was parsed and the description is a fallback
C2_Witness ==
    /\ p_pc = "done" /\ p_text = <<>> /\ p_kind = "caption"
    /\ p_result[2] = FALLBACK_CAPTIONS[1]

Foo == <<"F", "o", "o">>

BarBazQux == <<"B", "a", "r", " ", "b", "a", "z", ".", " ", "q", "u", "x">>

FilledCell(col, row) == IF col \in sheet.cols THEN fillna(row[col]) ELSE NA

\* the canonical key of row i of the sheet
RowKey(i) == lookup_key(fillna(sheet.rows[i].t1))

\* the first row of the sheet with key k
FirstRowOf(k) ==
    sheet.rows[CHOOSE i \in 1..Len(sheet.rows) :
                  RowKey(i) = k /\ \A j \in 1..(i - 1) : RowKey(j) # k]

\* C8: when rows canonicalize to the same lookup key, the table built by
\* load_and_prepare_data holds under that key the material, dimensions and
\* date of the first such row in row order, and nothing else
C8_FirstOccurrenceWins ==
    load_pc = "loaded" =>
        /\ DOMAIN data_map = {RowKey(i) : i \in 1..Len(sheet.rows)}
        /\ \A k \in DOMAIN data_map :
              data_map[k] = [material |-> FilledCell("T3", FirstRowOf(k)),
                             dimensions |-> FilledCell("T5", FirstRowOf(k)),
                             date |-> FilledCell("T14", FirstRowOf(k))]

\* C8 witness: a table was built from two rows with one key and different metadata
C8_Witness ==
    /\ load_pc = "loaded"
    /\ \E i, j \in 1..Len(sheet.rows) :
          /\ i < j /\ RowKey(i) = RowKey(j)
          /\ FilledCell("T3", sheet.rows[i]) # FilledCell("T3", sheet.rows[j])
          /\ data_map[RowKey(i)].material = FilledCell("T3", sheet.rows[i])

\* the database fields all defaulted
AllNA == [material |-> NA, date |-> NA, dimensions |-> NA]

\* C11: for a group whose lookup key is absent from the lookup table no
\* exception is raised while the prompt is prepared, the database fields of
\* the prompt and of the output row are all "N/A", and the group has its row
C11_AbsentKeyDefaults ==
    script \in {"enriched", "gui"} =>
        \A c \in 1..Len(calls) :
            calls[c].lookup_key \notin DOMAIN data_map =>
                /\ calls[c].prompt = AllNA
                /\ \E r \in RowsFor(calls[c].object_id) :
                      /\ output[r].material = NA
                      /\ output[r].date = NA
                      /\ output[r].dimensions = NA

\* the places of text where phrase stands, compared case-insensitively
Occurrences(text, phrase) ==
    {i \in 1..(Len(text) - Len(phrase) + 1) :
        lower(SubSeq(text, i, i + Len(phrase) - 1)) = phrase}

\* part stands somewhere in text, letter for letter
Contains(text, part) ==
    \E i \in 1..(Len(text) - Len(part) + 1) : SubSeq(text, i, i + Len(part) - 1) = part

\* C12: an unwanted phrase that stands in the input text anywhere but at its
\* very start is still in the text _clean_caption returns, untouched
C12_StartAnchored ==
    c_pc = "done" =>
        \A k \in 1..Len(UNWANTED_PHRASES) :
            \A i \in Occurrences(c_text, UNWANTED_PHRASES[k]) :
                i > 1 => Contains(c_result,
                                  SubSeq(c_text, i, i + Len(UNWANTED_PHRASES[k]) - 1))

\* the loop slept after round r
SleptAfter(r) == \E k \in 1..Len(sleeps) : sleeps[k] = r

\* C13: at most rate_limit_batch generation calls are made without a pause
\* between them: among any rate_limit_batch + 1 calls in a row the loop has
\* slept after one of the first rate_limit_batch, on every path through the
\* loop body
C13_PauseEveryBatch ==
    script \in {"enriched", "exp31"} =>
        \A c \in 1..Len(calls) :
            c + rate_limit_batch <= Len(calls) =>
                \E r \in c..(c + rate_limit_batch - 1) : SleptAfter(r)

\* the files of a listing, as a set
FileSet(q) == {q[i] : i \in 1..Len(q)}

\* the object IDs of the groups in the order the loop takes them, with the
\* files sent for each
ProcessingOrder(groups) ==
    [g \in 1..Len(groups) |-> <<groups[g].object_id, files_to_process(groups[g].image_files)>>]

\* C14: the rows are written in the same order whatever order the directory
\* listing has: a run over any other listing of the same files takes the
\* groups, each with the same files, in the order this run took them
C14_OrderIndependent ==
    pipe_pc \in {"loop", "closed"} =>
        \A q \in Listings :
            FileSet(q) = FileSet(listing) =>
                ProcessingOrder(group_images_by_id(q)) = ProcessingOrder(object_groups)

\* the spreadsheet has no ID column and load_and_prepare_data is over (a file
\* that cannot be read ends in the same except branch)
ConfigError == script \in {"enriched", "gui"} /\ "t1" \notin sheet.cols /\ pipe_pc # "main"

\* C15 as stated: when the spreadsheet lacks the ID column the resolver raises,
\* the error reaches the caller, and no generation call is made and no row written
C15_ConfigErrorRaises ==
    ConfigError => load_pc = "raised" /\ calls = <<>> /\ output = <<>>

\* C15 amended: when the spreadsheet lacks the ID column load_and_prepare_data
\* catches the exception and returns the empty table, and the caller returns at
\* once: no image is grouped, no generation call is made, no row is written
C15_ConfigErrorStopsRun ==
    ConfigError =>
        /\ load_pc = "failed" /\ data_map = EmptyMap
        /\ pipe_pc = "returned"
        /\ object_groups = <<>> /\ calls = <<>> /\ output = <<>>

\* C15 witness: a run over a sheet without ID column and a folder with an
\* image has returned
C15_Witness ==
    /\ ConfigError /\ pipe_pc = "returned" /\ load_pc = "failed"
    /\ \E f \in 1..Len(listing) : IsImage(listing[f])

\* C16: without GOOGLE_API_KEY the run aborts at once: no generation call is
\* attempted for any object and no output row is written
C16_NoKeyAborts == ~api_key /\ script # "none" => calls = <<>> /\ output = <<>>

\* C17: an image without a row of the data file is still in the output: the
\* number of data rows written is the number of image files found, and
\* matched_count + unmatched_count is that number
C17_EveryImageHasRow ==
    x2_pc \in {"closed", "returned"} =>
        /\ Len(x2_output) = Len(x2_images)
        /\ matched_count + unmatched_count = Len(x2_images)

\* the rows of the merged input that carry an ID, in concatenation order
MergedRows == dropna(concat(all_dataframes).rows)

\* C18 as stated: for each ID the output row equals, column by column, the
\* first row with that ID in concatenation order
C18_FirstRowWins ==
    merge_pc = "saved" =>
        \A k \in 1..Len(cleaned_df) : \A c \in DOMAIN cleaned_df[k] :
            cleaned_df[k][c] = first_row_value(MergedRows, cleaned_df[k].t1, c)

\* C18, amended: there is one output row per ID; each of its columns holds
\* the first non-empty value of that column among the rows with that ID in
\* concatenation order (empty when none has one), so a value of a later row
\* appears only in a column that every earlier row with that ID leaves empty
C18_FirstValueWins ==
    merge_pc = "saved" =>
        /\ \A i \in 1..Len(MergedRows) :
              Cardinality({k \in 1..Len(cleaned_df) : cleaned_df[k].t1 = MergedRows[i].t1}) = 1
        /\ \A k \in 1..Len(cleaned_df) : \A c \in DOMAIN cleaned_df[k] :
              LET same == {i \in 1..Len(MergedRows) : MergedRows[i].t1 = cleaned_df[k].t1} IN
              /\ same # {}
              /\ \A i \in same :
                    (MergedRows[i][c] # <<>> /\ \A j \in same : j < i => MergedRows[j][c] = <<>>)
                        => cleaned_df[k][c] = MergedRows[i][c]
              /\ (\A i \in same : MergedRows[i][c] = <<>>) => cleaned_df[k][c] = <<>>

\* two rows share an ID, the first with an empty cell that the second fills,
\* and the output row is none of the two
C18_Witness ==
    /\ merge_pc = "saved"
    /\ \E i, j \in 1..Len(MergedRows) :
          /\ i < j /\ MergedRows[i].t1 = MergedRows[j].t1
          /\ MergedRows[i].T2 = <<>> /\ MergedRows[j].T2 # <<>>
          /\ MergedRows[i].T3 # <<>> /\ MergedRows[j].T3 = <<>>
          /\ \E k \in 1..Len(cleaned_df) :
                /\ cleaned_df[k].t1 = MergedRows[i].t1
                /\ cleaned_df[k].T2 = MergedRows[j].T2
                /\ cleaned_df[k].T3 = MergedRows[i].T3

\* the labels of the language being parsed
ParseTags == LANGUAGE_MAPPING[p_lang]

\* line i of the text starts, case aside, with the headline label
HeadlineLine(i) == startswith(upper(strip(p_lines[i])), prefix_of(ParseTags[1]))

\* line i starts with the description label (and not with the headline label)
DescriptionLine(i) ==
    ~HeadlineLine(i) /\ startswith(upper(strip(p_lines[i])), prefix_of(ParseTags[2]))

\* line i is not blank and carries no label
UnlabeledLine(i) == strip(p_lines[i]) # <<>> /\ ~HeadlineLine(i) /\ ~DescriptionLine(i)

\* the text after the description label of line d, followed by the non-blank
\* lines d+1 .. e, each after one space
Accumulated(d, e) ==
    LET F[i \in d..e] ==
            IF i = d THEN strip(Drop(strip(p_lines[d]), Len(prefix_of(ParseTags[2]))))
            ELSE IF strip(p_lines[i]) = <<>> THEN F[i - 1]
            ELSE F[i - 1] \o <<" ">> \o strip(p_lines[i])
    IN  F[e]

\* C19: in the state-tracking parser, once a headline label was read after
\* the last description label, the description is what was accumulated up to
\* the line before that headline label: no later line without label is
\* appended to it
C19_HeadlineClosesDescription ==
    (p_kind = "enriched" /\ p_pc \in {"lines", "done"}) =>
        \A d \in 1..(p_i - 1) : \A h \in (d + 1)..(p_i - 1) :
            (/\ DescriptionLine(d) /\ HeadlineLine(h)
             /\ \A k \in (d + 1)..(h - 1) : ~HeadlineLine(k) /\ ~DescriptionLine(k)
             /\ \A k \in (h + 1)..(p_i - 1) : ~DescriptionLine(k))
            => /\ p_st.description = Accumulated(d, h - 1)
               /\ ~p_st.in_description

\* C19 witness: a description label, a headline label, then a line without
\* label were read, and the description is that of the first line alone
C19_Witness ==
    /\ p_kind = "enriched" /\ p_pc = "lines" /\ p_i = 4 /\ Len(p_lines) = 3
    /\ DescriptionLine(1) /\ HeadlineLine(2) /\ UnlabeledLine(3)
    /\ p_st.description = Accumulated(1, 1) /\ p_st.description # <<>>

\* C20 as stated: in the caption generator's parser a line without label read
\* while the description is empty changes neither headline nor description
C20_UnlabeledDiscarded ==
    [][(/\ p_kind = "caption" /\ p_pc = "lines" /\ p_i' = p_i + 1
        /\ UnlabeledLine(p_i) /\ p_st.description = <<>>)
       => p_st' = p_st]_vars

\* C20, amended: such a line is discarded only while the headline is empty as
\* well (before any label, or after a headline label without text); read after
\* a headline was set and before any description, it becomes the description
C20_UnlabeledDiscardedOrTaken ==
    [][(/\ p_kind = "caption" /\ p_pc = "lines" /\ p_i' = p_i + 1
        /\ UnlabeledLine(p_i) /\ p_st.description = <<>>)
       => IF p_st.headline = <<>> THEN p_st' = p_st
          ELSE p_st' = [p_st EXCEPT !.description = strip(p_lines[p_i])]]_vars

\* C20 witness: a line without label, read after the headline label and
\* before any description label, was taken as the description
C20_Witness ==
    /\ p_kind = "caption" /\ p_pc = "lines" /\ p_i = 3
    /\ HeadlineLine(1) /\ UnlabeledLine(2)
    /\ p_st.headline # <<>> /\ p_st.description = strip(p_lines[2])

\* C21: processing objects never changes the lookup table: once built, the
\* map equals the map as load_and_prepare_data built it from the spreadsheet
C21_LookupTableReadOnly ==
    (script \in {"enriched", "gui"} /\ load_pc \in {"loaded", "failed"}) =>
        data_map = load_and_prepare_data(sheet)

\* C22: the generation call of a group of n paths receives min(4, n) paths,
\* never more than 4, in ascending order, all of them paths of the group, and
\* none of the paths left out is smaller than one handed over
C22_FourSmallestInOrder ==
    sel_pc = "done" =>
        /\ Len(sel_out) = Min(4, Len(sel_files)) /\ Len(sel_out) <= 4
        /\ \A i \in 1..(Len(sel_out) - 1) : str_less(sel_out[i], sel_out[i + 1])
        /\ \A i \in 1..Len(sel_out) : \E j \in 1..Len(sel_files) : sel_files[j] = sel_out[i]
        /\ \A j \in 1..Len(sel_files) :
              (\A i \in 1..Len(sel_out) : sel_out[i] # sel_files[j])
                  => \A i \in 1..Len(sel_out) : str_less(sel_out[i], sel_files[j])

\* C22 witness: a group of five paths, not in ascending order, was cut to four
C22_Witness ==
    /\ sel_pc = "done" /\ Len(sel_files) = 5 /\ Len(sel_out) = 4
    /\ str_less(sel_files[5], sel_files[1])

\* C23: whenever generation for an image fails hard (generate_caption yields
\* None, so the fallback caption is written, or the try block raises), the
\* loop pauses before the generation call for the next image
C23_PauseAfterFailure ==
    \A k \in 1..(Len(i1_steps) - 1) :
        (i1_steps[k].failed \/ i1_steps[k].raised # "no") => i1_steps[k].slept # "none"

\* C29: at every point of the loop successful <= processed and processed is
\* the number of data rows written; on return processed is the number of
\* image files
C29_CountsEachImageOnce ==
    /\ i1_pc \in {"loop", "returned"} =>
          i1_successful <= i1_processed /\ i1_processed = Len(i1_rows)
    /\ i1_pc = "returned" => i1_processed = Len(i1_files)

\* C24: for every generation call the labels the prompt tells the model to
\* use are the labels the parser searches in the response, and they are the
\* pair LANGUAGE_MAPPING holds for the configured language
C24_OneSchemaPerCall ==
    pr_pc \in {"prompted", "answered"} =>
        /\ pr_prompt_tags = pr_parser_tags
        /\ pr_language \in DOMAIN LANGUAGE_MAPPING =>
              pr_parser_tags = LANGUAGE_MAPPING[pr_language]

\* the workers that have not yet executed the last statement of
\* run_processing_logic
Running == {r \in 1..Len(threads) : threads[r].pc # "returned"}

\* the FINISHED message of run r was taken from the queue
FinishedConsumed(r) ==
    /\ \E i \in 1..Len(put_log) : put_log[i] = Message(r, "FINISHED")
    /\ \A i \in 1..Len(log_queue) : log_queue[i] # Message(r, "FINISHED")

\* C25: at most one worker is running at any time; while one is running the
\* start button is disabled, and it stays disabled until the FINISHED message
\* of the worker started last has been taken from the queue
C25_OneWorker ==
    /\ Cardinality(Running) <= 1
    /\ Running # {} => start_button = "disabled"
    /\ (threads # <<>> /\ start_button = "normal") => FinishedConsumed(Len(threads))

\* C25 witness: a second worker is running after the first one has returned
C25_Witness ==
    /\ Len(threads) = 2 /\ threads[1].pc = "returned" /\ threads[2].pc = "try"
    /\ start_button = "disabled"

\* the messages run r has put, in order
PutBy(r) == SelectSeq(put_log, LAMBDA m : m.run = r)

\* C26: a run that has returned has put FINISHED exactly once, as its last
\* message; and whenever the start button is disabled (a run was started), it
\* is eventually enabled again
C26_FinishedOnceAndLast ==
    /\ [](\A r \in 1..Len(threads) :
            /\ Cardinality({i \in 1..Len(PutBy(r)) : PutBy(r)[i].text = "FINISHED"})
                  = (IF threads[r].pc = "returned" THEN 1 ELSE 0)
            /\ threads[r].pc = "returned" => PutBy(r)[Len(PutBy(r))].text = "FINISHED")
    /\ ((start_button = "disabled") ~> (start_button = "normal"))

\* C26 witness: a run left the try block by an exception, put FINISHED, and
\* the button is enabled again
C26_Witness ==
    /\ threads # <<>> /\ threads[1].end = "raise" /\ threads[1].pc = "returned"
    /\ start_button = "normal"
    /\ PutBy(1)[Len(PutBy(1)) - 1].text = "A CRITICAL ERROR OCCURRED"

\* the messages of a list other than FINISHED
LogMessages(q) == SelectSeq(q, LAMBDA m : m.text # "FINISHED")

\* C27: the messages shown, followed by those still in the queue, are the
\* messages put, in the order they were put (each one once); and once the
\* FINISHED message of a run was taken, no message of that run is left to be
\* shown
C27_ShownOnceInOrder ==
    /\ shown_log \o LogMessages(log_queue) = LogMessages(put_log)
    /\ \A r \in 1..Len(threads) :
          FinishedConsumed(r) =>
              /\ threads[r].pc = "returned"
              /\ \A i \in 1..Len(log_queue) : log_queue[i].run # r

\* C27 witness: the GUI has shown a message of a run while a later message of
\* the run was already waiting in the queue and the worker was still putting
C27_Witness ==
    /\ threads # <<>> /\ threads[1].pc = "try" /\ threads[1].todo # <<>>
    /\ shown_log # <<>> /\ Len(log_queue) >= 2 /\ gui_pc = "draining"

\* C28: generate_catalog_text always comes to an end by returning a string,
\* after at most 3 HTTP requests: every request but the last was answered by a
\* rate-limit response, any other request error returns the error string at
\* once, and three rate-limited attempts return "Failed after retries"
C28_ReturnsAfterAtMostThree ==
    /\ rt_pc # "raised"
    /\ Len(rt_requests) <= MaxAttempts
    /\ \A k \in 1..(Len(rt_requests) - 1) : rate_limited(rt_requests[k])
    /\ rt_pc = "returned" =>
          /\ rt_result.kind \in {"content", "api_error", "failed_after_retries"}
          /\ rt_result.kind = "failed_after_retries" <=>
                 /\ Len(rt_requests) = MaxAttempts
                 /\ \A k \in 1..MaxAttempts : rate_limited(rt_requests[k])
          /\ rt_result.kind = "api_error" <=>
                 /\ rt_requests # <<>>
                 /\ LET last == rt_requests[Len(rt_requests)] IN
                        last.kind \in {"http_error", "no_response", "not_json"}
                        /\ ~rate_limited(last)

\* the first three hyphen-separated segments of a lower-cased file name
NameIdentifier(name) == join(Take(split(lower(name), "-"), IdentifierSegments), "-")

\* C30: a file is copied only if the first three hyphen-separated segments of
\* its lower-cased name are an identifier extracted from column T13; no file
\* name is copied twice, and found_images_counter is the number of distinct
\* names copied
C30_CopiesListedObjectsOnce ==
    /\ \A k \in 1..Len(cp_copies) : NameIdentifier(cp_copies[k].name) \in object_identifiers
    /\ \A j, k \in 1..Len(cp_copies) : j # k => cp_copies[j].name # cp_copies[k].name
    /\ found_images_counter = Cardinality({cp_copies[k].name : k \in 1..Len(cp_copies)})
    /\ copied_files = {cp_copies[k].name : k \in 1..Len(cp_copies)}

\* C9: canonicalizing a canonical key gives the same key (canon(canon(x)) = canon(x))
C9_CanonIdempotent == canon_pc = "twice" => key_twice = key_once

\* C10: the table never has the empty string as a key
C10_NoEmptyKey == load_pc = "loaded" => <<>> \notin DOMAIN data_map

====
